---- MODULE Spec2Model ----
(***************************************************************************)
(* Model of openclaw-plugin-mcp: the connection manager (McpServerManager), *)
(* the protocol client's concurrency limiter (McpClientWrapper) and the     *)
(* cached tool retrieval of the bridge.                                     *)
(*                                                                          *)
(* JavaScript runs one continuation at a time; every `await` is a point     *)
(* where other continuations may run.  Each action below is one             *)
(* synchronous run of code between two such points.                         *)
(***************************************************************************)
EXTENDS Integers, Sequences, FiniteSets, TLC

(***************************************************************************)
(* Bounds of the model                                                      *)
(***************************************************************************)
\* independent callers of the manager's public operations (one call each)
NCallers == 2
\* defaults.retries is drawn from 0..MaxRetries
MaxRetries == 2

(***************************************************************************)
(* Values                                                                   *)
(***************************************************************************)
Callers == 1..NCallers
NoTask == <<0, "none">>
\* messages of transport failures (connect or listTools rejecting)
ErrMsgs == {"e1", "e2"}
\* what client.listTools() can answer
ToolLists == {<<"read", "write">>}

VARIABLES
  names,      \* the keys of McpServerManager.servers, in insertion order
  retries,    \* config.defaults.retries
  servers,    \* McpServerManager.servers: name -> ManagedServer
  wrappers,   \* per endpoint, the McpClientWrapper objects constructed for it, by identity
  task,       \* the connectServer/disconnectServer invocations and their doConnect routines
  caller,     \* the callers of the public operations
  transport,  \* McpClientWrapper.config.transport of the client under study
  cl,         \* that McpClientWrapper: client, pendingCalls, callQueue
  life,       \* the connect()/disconnect() call of its owner, if one is running
  call,       \* the callTool invocations on it
  cached,     \* what the last getCachedTools() call returned
  status,     \* what the last getStatus() / getServerStatus(name) call returned
  arg,        \* the arguments of the pure function under study
  out         \* what that function returned for them

mgrVars == <<names, retries, servers, wrappers, task, caller>>
cliVars == <<transport, cl, life, call>>
\* what callers got back from the read-only and pure functions
obsVars == <<cached, status, arg, out>>
vars == <<names, retries, servers, wrappers, task, caller, transport, cl, life, call,
          cached, status, arg, out>>

\* the enabled endpoint names of the configuration
Servers == {names[i] : i \in 1..Len(names)}
\* one invocation of connectServer/disconnectServer: (caller, endpoint name)
Tasks == Callers \X Servers

(***************************************************************************)
(* Manager: records                                                         *)
(***************************************************************************)
\* initializeServers(): the record of one enabled endpoint
InitialServer(s) ==
  [name |-> s, client |-> 0, wrapper |-> 0, state |-> "disconnected",
   tools |-> <<>>, error |-> "none", lastPing |-> 0, connectPromise |-> NoTask]

\* new McpClientWrapper({serverName, config, onError}): client = null
\*   transportError   the error the transport of its session has reported, if any
NewWrapper == [client |-> "null", transportError |-> "none"]

\* an invocation that has not started, with the locals of connectServer,
\* doConnect and disconnectServer
\*   pc         where the invocation stands; ret: the return statement it left by
\*   res        how the promise of connectServer/disconnectServer settled
\*   awaiting   connectServer: the in-flight promise it awaits (by its owner)
\*   promise    connectServer: the promise of the doConnect it started
\*   client, attempt, lastError, err   doConnect: client, attempt, lastError, err
\*   connects   doConnect: how many times it has called client.connect()
\*   closeThrew disconnectServer: its catch block was entered
\*   delays     doConnect: the delays (ms) of the timers it has set, in order
IdleTask ==
  [pc |-> "idle", op |-> "none", res |-> "none", ret |-> "none", awaiting |-> NoTask,
   client |-> 0, attempt |-> 0, connects |-> 0, lastError |-> "none", err |-> "none",
   promise |-> "none", closeThrew |-> FALSE, delays |-> <<>>]

\* an invocation that has returned: its locals are gone, its promise stays
Returned(tk, op, res, ret) ==
  [IdleTask EXCEPT !.pc = "done", !.op = op, !.res = res, !.ret = ret,
                   !.promise = tk.promise, !.closeThrew = tk.closeThrew]

IdleCaller == [pc |-> "idle", op |-> "none", res |-> "none"]

\* setState(server, state, error?)
SetState(server, state, error) ==
  [server EXCEPT !.state = state,
                 !.error = IF error # "undefined" THEN error ELSE @]

St == [servers |-> servers, wrappers |-> wrappers, task |-> task]

\* the identity of the next object constructed for endpoint s
FreshId(ws) == IF DOMAIN ws = {} THEN 1 ELSE (CHOOSE i \in DOMAIN ws : \A j \in DOMAIN ws : j <= i) + 1

\* a wrapper is held by the endpoint record, by a local of a running
\* invocation, or by the execute closure of a bridged tool that was handed out
Held(st, s, w) ==
  \/ st.servers[s].wrapper = w
  \/ \E t \in Tasks : t[2] = s /\ st.task[t].pc # "done" /\ st.task[t].client = w
  \/ \E i \in 1..Len(cached.tools) :
       cached.tools[i].serverName = s /\ cached.tools[i].client = w

\* wrappers of endpoint s that nothing holds any more and that own no session
\* are gone; one that still owns a session stays: nothing will close it
Dropped(st, s) ==
  LET keep == {w \in DOMAIN st.wrappers[s] :
                 Held(st, s, w) \/ st.wrappers[s][w].client # "null"}
  IN [st EXCEPT !.wrappers[s] = [w \in keep |-> st.wrappers[s][w]]]

Apply(st) ==
  /\ servers' = st.servers
  /\ wrappers' = st.wrappers
  /\ task' = st.task

\* callers are interchangeable: they make their calls in the order of their numbers
CanCall(c) ==
  /\ caller[c].pc = "idle"
  /\ IF c = 1 THEN TRUE ELSE caller[c - 1].pc # "idle"

(***************************************************************************)
(* Manager: connectServer / doConnect                                       *)
(***************************************************************************)
\* doConnect, one loop iteration up to `await client.connect()`:
\* setState(connecting), new McpClientWrapper, client.connect() called
BeginAttempt(st, t, attempt) ==
  LET s == t[2] IN
  LET w == FreshId(st.wrappers[s]) IN
  [st EXCEPT !.servers[s] = SetState(@, "connecting", "undefined"),
             !.wrappers[s] = [i \in DOMAIN @ \cup {w} |-> IF i = w THEN NewWrapper ELSE @[i]],
             !.task[t].pc = "connect",
             !.task[t].attempt = attempt,
             !.task[t].connects = @ + 1,
             !.task[t].client = w]

\* faulty variant: connectServer without the check of connectPromise
ConnectServerNoDedup(st, t) ==
  LET s == t[2]
      server == st.servers[s]
  IN
  IF server.state = "connected"
    THEN [st EXCEPT !.task[t] = Returned(@, "connect", "ok", "connected")]
  ELSE
    LET started == BeginAttempt(st, t, 0) IN
    [started EXCEPT !.servers[s].connectPromise = t,
                    !.task[t].op = "connect",
                    !.task[t].promise = "pending"]

\* faulty variant: connectServer without the check of state = connected
ConnectServerNoIdem(st, t) ==
  LET s == t[2]
      server == st.servers[s]
  IN
  IF server.connectPromise # NoTask
    THEN [st EXCEPT !.task[t].op = "connect", !.task[t].pc = "join",
                    !.task[t].awaiting = server.connectPromise]
  ELSE
    LET started == BeginAttempt(st, t, 0) IN
    [started EXCEPT !.servers[s].connectPromise = t,
                    !.task[t].op = "connect",
                    !.task[t].promise = "pending"]

\* connectServer(name) for a configured name, up to its first await
ConnectServerStep(st, t) ==
  LET s == t[2]
      server == st.servers[s]
  IN
  IF server.state = "connected"
    THEN [st EXCEPT !.task[t] = Returned(@, "connect", "ok", "connected")]
  ELSE IF server.connectPromise # NoTask
    THEN [st EXCEPT !.task[t].op = "connect", !.task[t].pc = "join",
                    !.task[t].awaiting = server.connectPromise]
  ELSE
    LET started == BeginAttempt(st, t, 0) IN
    [started EXCEPT !.servers[s].connectPromise = t,
                    !.task[t].op = "connect",
                    !.task[t].promise = "pending"]

\* a caller invokes connectServer(name)
CallConnectServer(c, n) ==
  /\ CanCall(c)
  /\ caller' = [caller EXCEPT ![c] = [pc |-> "called", op |-> "connectServer", res |-> "none"]]
  /\ Apply(ConnectServerStep(St, <<c, n>>))
  /\ UNCHANGED <<names, retries>>
  /\ UNCHANGED <<cliVars, obsVars>>

\* faulty variant: the same delay before every retry
delayConstant(attempt) == 1000 * 1

\* const delay = 1000 * 2 ** attempt
delay(attempt) == 1000 * 2 ^ attempt

\* faulty variant: the loop runs a fixed number of times, whatever
\* defaults.retries says
AttemptFailedIgnoresRetries(st, t, e) ==
  LET s == t[2]
      caught == [st EXCEPT !.task[t].lastError = e, !.task[t].client = 0]
  IN
  Dropped(IF st.task[t].attempt < MaxRetries + 1
            THEN [caught EXCEPT !.task[t].pc = "backoff",
                                !.task[t].delays = Append(@, delay(st.task[t].attempt))]
            ELSE [caught EXCEPT !.task[t].pc = "finally",
                                !.task[t].promise = e,
                                !.servers[s] = SetState(@, "error", e)],
          s)

\* faulty variant: the loop runs while attempt <= retries + 1
AttemptFailedOneMore(st, t, e) ==
  LET s == t[2]
      caught == [st EXCEPT !.task[t].lastError = e, !.task[t].client = 0]
  IN
  Dropped(IF st.task[t].attempt < retries + 1
            THEN [caught EXCEPT !.task[t].pc = "backoff",
                                !.task[t].delays = Append(@, delay(st.task[t].attempt))]
            ELSE [caught EXCEPT !.task[t].pc = "finally",
                                !.task[t].promise = e,
                                !.servers[s] = SetState(@, "error", e)],
          s)

\* doConnect catch block and, after the last attempt, the code below the loop
AttemptFailed(st, t, e) ==
  LET s == t[2]
      caught == [st EXCEPT !.task[t].lastError = e, !.task[t].client = 0]
  IN
  Dropped(IF st.task[t].attempt < retries
            THEN [caught EXCEPT !.task[t].pc = "backoff",
                                !.task[t].delays = Append(@, delay(st.task[t].attempt))]
            ELSE [caught EXCEPT !.task[t].pc = "finally",
                                !.task[t].promise = e,
                                !.servers[s] = SetState(@, "error", e)],
          s)

\* client.connect() resolves: McpClientWrapper.client = client; then
\* doConnect calls client.listTools()
ConnectOk(t) ==
  /\ task[t].pc = "connect"
  /\ wrappers' = [wrappers EXCEPT ![t[2]][task[t].client].client = "session"]
  /\ task' = [task EXCEPT ![t].pc = "list"]
  /\ UNCHANGED <<names, retries, servers, caller>>
  /\ UNCHANGED <<cliVars, obsVars>>

\* the onError callback doConnect hands to the McpClientWrapper it constructs
onError(server, err) == SetState(server, "error", err)

\* what an error event of the transport does to the endpoint: connect()
\* registers no handler on the Client or on the transport and nothing in
\* McpClientWrapper calls this.onError, so the event reaches nobody
Reported(server, err) == server

\* the transport of the live session of connected endpoint s reports the
\* unrecoverable error e (the spawned process exits, the stream breaks)
TransportError(s, e) ==
  LET w == servers[s].wrapper IN
  /\ servers[s].state = "connected"
  /\ w # 0
  /\ wrappers[s][w].client = "session"
  /\ wrappers[s][w].transportError = "none"
  /\ wrappers' = [wrappers EXCEPT ![s][w].transportError = e]
  /\ servers' = [servers EXCEPT ![s] = Reported(@, e)]
  /\ UNCHANGED <<names, retries, task, caller>>
  /\ UNCHANGED <<cliVars, obsVars>>

\* client.connect() rejects
ConnectFail(t, e) ==
  /\ task[t].pc = "connect"
  /\ Apply(AttemptFailed([St EXCEPT !.task[t].err = e], t, e))
  /\ UNCHANGED <<names, retries, caller>>
  /\ UNCHANGED <<cliVars, obsVars>>

\* faulty variant: the success block does not store the wrapper
ConnectSucceededNoWrapper(st, t, tools) ==
  LET s == t[2] IN
  [st EXCEPT !.servers[s] = [SetState(@, "connected", "undefined") EXCEPT
                               !.client = st.task[t].client,
                               !.tools = tools,
                               !.lastPing = @ + 1,
                               !.error = "none"],
             !.task[t].pc = "finally",
             !.task[t].client = 0,
             !.task[t].promise = "ok"]

\* faulty variant: the success block without `server.error = undefined`
ConnectSucceededKeepsError(st, t, tools) ==
  LET s == t[2] IN
  [st EXCEPT !.servers[s] = [SetState(@, "connected", "undefined") EXCEPT
                               !.client = st.task[t].client,
                               !.wrapper = st.task[t].client,
                               !.tools = tools,
                               !.lastPing = @ + 1],
             !.task[t].pc = "finally",
             !.task[t].client = 0,
             !.task[t].promise = "ok"]

\* doConnect success block after `await client.listTools()`
ConnectSucceeded(st, t, tools) ==
  LET s == t[2] IN
  [st EXCEPT !.servers[s] = [SetState(@, "connected", "undefined") EXCEPT
                               !.client = st.task[t].client,
                               !.wrapper = st.task[t].client,
                               !.tools = tools,
                               !.lastPing = @ + 1,
                               !.error = "none"],
             !.task[t].pc = "finally",
             !.task[t].client = 0,
             !.task[t].promise = "ok"]

ListOk(t, tools) ==
  /\ task[t].pc = "list"
  /\ Apply(ConnectSucceeded(St, t, tools))
  /\ UNCHANGED <<names, retries, caller>>
  /\ UNCHANGED <<cliVars, obsVars>>

\* client.listTools() rejects
ListFail(t, e) ==
  /\ task[t].pc = "list"
  /\ Apply(AttemptFailed([St EXCEPT !.task[t].err = e], t, e))
  /\ UNCHANGED <<names, retries, caller>>
  /\ UNCHANGED <<cliVars, obsVars>>

\* the backoff timer fires: next loop iteration
BackoffDone(t) ==
  /\ task[t].pc = "backoff"
  /\ Apply(BeginAttempt(St, t, task[t].attempt + 1))
  /\ UNCHANGED <<names, retries, caller>>
  /\ UNCHANGED <<cliVars, obsVars>>

\* connectServer of the caller that started doConnect resumes: finally block
OwnerResumed(st, t) ==
  [st EXCEPT !.servers[t[2]].connectPromise = NoTask,
             !.task[t] = Returned(@, "connect", @.promise, "finally")]

OwnerResume(t) ==
  /\ task[t].pc = "finally"
  /\ Apply(OwnerResumed(St, t))
  /\ UNCHANGED <<names, retries, caller>>
  /\ UNCHANGED <<cliVars, obsVars>>

\* faulty variant: the joining caller swallows a rejection
JoinResumedSwallow(st, t) ==
  [st EXCEPT !.task[t] = Returned(@, "connect", "ok", "joined")]

\* connectServer of a caller that awaited the in-flight promise resumes
JoinResumed(st, t) ==
  [st EXCEPT !.task[t] = Returned(@, "connect", st.task[@.awaiting].promise, "joined")]

JoinResume(t) ==
  /\ task[t].pc = "join"
  /\ task[task[t].awaiting].promise # "pending"
  /\ Apply(JoinResumed(St, t))
  /\ UNCHANGED <<names, retries, caller>>
  /\ UNCHANGED <<cliVars, obsVars>>

(***************************************************************************)
(* Manager: disconnectServer                                                *)
(***************************************************************************)
\* faulty variant: disconnectServer leaves server.tools as it is
DisconnectFinishedKeepsTools(st, t) ==
  LET s == t[2] IN
  Dropped([st EXCEPT !.servers[s] = SetState([@ EXCEPT !.client = 0, !.wrapper = 0],
                                             "disconnected", "undefined"),
                     !.task[t] = Returned(@, "disconnect", "ok", "disconnected")],
          s)

\* faulty variant: no try/catch around wrapper.disconnect()
DisconnectFinishedNoCatch(st, t) ==
  LET s == t[2] IN
  IF st.task[t].closeThrew
    THEN [st EXCEPT !.task[t] = Returned(@, "disconnect", "close failed", "thrown")]
    ELSE Dropped([st EXCEPT !.servers[s] = SetState([@ EXCEPT !.client = 0, !.wrapper = 0,
                                                              !.tools = <<>>],
                                                    "disconnected", "undefined"),
                            !.task[t] = Returned(@, "disconnect", "ok", "disconnected")],
                 s)

\* disconnectServer after the try/catch around wrapper.disconnect()
DisconnectFinished(st, t) ==
  LET s == t[2] IN
  Dropped([st EXCEPT !.servers[s] = SetState([@ EXCEPT !.client = 0, !.wrapper = 0, !.tools = <<>>],
                                             "disconnected", "undefined"),
                     !.task[t] = Returned(@, "disconnect", "ok", "disconnected")],
          s)

\* disconnectServer(name) for a configured name, up to its first await
DisconnectServerStep(st, t) ==
  LET s == t[2]
      w == st.servers[s].wrapper
      begun == [st EXCEPT !.task[t].op = "disconnect"]
  IN
  IF w = 0
    THEN DisconnectFinished(begun, t)
  ELSE IF st.wrappers[s][w].client = "null"
    \* McpClientWrapper.disconnect(): if (!this.client) return
    THEN [begun EXCEPT !.task[t].pc = "closed", !.task[t].client = w]
    \* this.client.close() is in flight
    ELSE [begun EXCEPT !.task[t].pc = "closing", !.task[t].client = w]

CallDisconnectServer(c, n) ==
  /\ CanCall(c)
  /\ caller' = [caller EXCEPT ![c] = [pc |-> "called", op |-> "disconnectServer", res |-> "none"]]
  /\ Apply(DisconnectServerStep(St, <<c, n>>))
  /\ UNCHANGED <<names, retries>>
  /\ UNCHANGED <<cliVars, obsVars>>

\* McpClientWrapper.disconnect(): close() settles (resolves or throws), finally block
CloseDone(t, threw) ==
  /\ task[t].pc = "closing"
  /\ wrappers' = [wrappers EXCEPT ![t[2]][task[t].client].client = "null"]
  /\ task' = [task EXCEPT ![t].pc = "closed", ![t].closeThrew = threw]
  /\ UNCHANGED <<names, retries, servers, caller>>
  /\ UNCHANGED <<cliVars, obsVars>>

\* disconnectServer resumes after `await wrapper.disconnect()`
DisconnectResume(t) ==
  /\ task[t].pc = "closed"
  /\ Apply(DisconnectFinished(St, t))
  /\ UNCHANGED <<names, retries, caller>>
  /\ UNCHANGED <<cliVars, obsVars>>

(***************************************************************************)
(* Manager: connectAll / disconnectAll                                      *)
(***************************************************************************)
RECURSIVE ConnectAllFrom(_, _, _)
\* names.map((name) => this.connectServer(name)), from index i on
ConnectAllFrom(st, c, i) ==
  IF i > Len(names) THEN st
  ELSE ConnectAllFrom(ConnectServerStep(st, <<c, names[i]>>), c, i + 1)

RECURSIVE DisconnectAllFrom(_, _, _)
\* [...keys].map((name) => this.disconnectServer(name)), from index i on
DisconnectAllFrom(st, c, i) ==
  IF i > Len(names) THEN st
  ELSE DisconnectAllFrom(DisconnectServerStep(st, <<c, names[i]>>), c, i + 1)

CallConnectAll(c) ==
  /\ CanCall(c)
  /\ caller' = [caller EXCEPT ![c] = [pc |-> "called", op |-> "connectAll", res |-> "none"]]
  /\ Apply(ConnectAllFrom(St, c, 1))
  /\ UNCHANGED <<names, retries>>
  /\ UNCHANGED <<cliVars, obsVars>>

CallDisconnectAll(c) ==
  /\ CanCall(c)
  /\ caller' = [caller EXCEPT ![c] = [pc |-> "called", op |-> "disconnectAll", res |-> "none"]]
  /\ Apply(DisconnectAllFrom(St, c, 1))
  /\ UNCHANGED <<names, retries>>
  /\ UNCHANGED <<cliVars, obsVars>>

\* faulty variant: Promise.all, which rejects with the first rejection
AllFailFast(tk, c) ==
  IF \E s \in Servers : tk[<<c, s>>].pc = "done" /\ tk[<<c, s>>].res \in ErrMsgs
    THEN "rejected"
  ELSE IF \A s \in Servers : tk[<<c, s>>].pc = "done" THEN "ok" ELSE "pending"

\* Promise.allSettled over the calls of caller c: settles once every one has
\* settled, and never rejects
AllSettled(tk, c) ==
  IF \A s \in Servers : tk[<<c, s>>].pc = "done" THEN "ok" ELSE "pending"

\* connectAll / disconnectAll resume after `await Promise.allSettled(...)`
SweepResume(c) ==
  /\ caller[c].pc = "called"
  /\ caller[c].op \in {"connectAll", "disconnectAll"}
  /\ AllSettled(task, c) # "pending"
  /\ caller' = [caller EXCEPT ![c].pc = "resolved", ![c].res = AllSettled(task, c)]
  /\ UNCHANGED <<names, retries, servers, wrappers, task>>
  /\ UNCHANGED <<cliVars, obsVars>>

(***************************************************************************)
(* Protocol client: the concurrency limiter of callTool                     *)
(***************************************************************************)
\* callTool invocations on the client under study (one call each)
NCalls == 4
Calls == 1..NCalls
Transports == {"stdio", "http", "sse"}
\* CONCURRENCY: the limit per transport type
CONCURRENCY == [stdio |-> 1, http |-> 4, sse |-> 2]
\* get maxConcurrency()
MaxConcurrency == CONCURRENCY[transport]

NotConnectedMsg == "not connected"
\* new McpClientWrapper(opts)
NewClient == [client |-> "null", pendingCalls |-> 0, callQueue |-> <<>>]
\* the caller of an invocation has not got its answer yet
NotReturned == [returned |-> FALSE]
\* an invocation that has not started: op is the function invoked (callTool,
\* by the execute function of a bridged tool, or listTools), res how its
\* promise settled, ret what execute gave its own caller
IdleCall == [pc |-> "idle", op |-> "none", res |-> "none", ret |-> NotReturned]

Cl == [cl |-> cl, call |-> call]

\* callTool invocations are interchangeable: they are made in the order of their numbers
CanCallTool(k) ==
  /\ call[k].pc = "idle"
  /\ IF k = 1 THEN TRUE ELSE call[k - 1].pc # "idle"

\* an optional string of the configuration is "absent" or a string;
\* JavaScript takes an absent one and the empty one for false
Truthy(v) == v # "absent" /\ v # ""

\* what a create...Transport function gives: the transport it made, or the
\* Error it threw
NoError == [message |-> "none", transport |-> "none", field |-> "none"]
Made(kind) == [threw |-> FALSE, kind |-> kind, error |-> NoError]
Threw(e) == [threw |-> TRUE, kind |-> "none", error |-> e]
\* Error(`Server "...": <kind> transport requires "<field>"`)
Requires(kind, field) == [message |-> "requires", transport |-> kind, field |-> field]
\* Error(`Unknown transport "<kind>" for server "..."`)
UnknownTransport(kind) == [message |-> "unknown transport", transport |-> kind, field |-> "none"]

createStdioTransport(config) ==
  IF ~Truthy(config.command) THEN Threw(Requires("stdio", "command")) ELSE Made("stdio")

createHttpTransport(config) ==
  IF ~Truthy(config.url) THEN Threw(Requires("http", "url")) ELSE Made("http")

\* faulty variant: createSseTransport without the test of config.url
createSseTransportNoCheck(config) == Made("sse")

createSseTransport(config) ==
  IF ~Truthy(config.url) THEN Threw(Requires("sse", "url")) ELSE Made("sse")

createTransport(config) ==
  CASE config.transport = "stdio" -> createStdioTransport(config)
    [] config.transport = "http"  -> createHttpTransport(config)
    [] config.transport = "sse"   -> createSseTransport(config)
    [] OTHER                      -> Threw(UnknownTransport(config.transport))

\* connect() on a wrapper whose field client is `client`, up to its first
\* await: it has resolved (a session exists already), it has rejected with
\* what createTransport threw, or it awaits client.connect(transport); and
\* the field client it leaves
connect(client, config) ==
  IF client # "null"
    THEN [outcome |-> "resolved", error |-> NoError, client |-> client]
  ELSE LET made == createTransport(config) IN
       IF made.threw
         THEN [outcome |-> "rejected", error |-> made.error, client |-> "null"]
         ELSE [outcome |-> "awaiting", error |-> NoError, client |-> "null"]

\* the configuration of the client under study: the fields its transport
\* type requires are given
ConfigOf(tr) == [transport |-> tr, command |-> "npx", url |-> "https://mcp.example.com"]

\* connect(), up to `await client.connect(transport)`
ClientConnect ==
  /\ life = "idle"
  /\ life' = IF connect(cl.client, ConfigOf(transport)).outcome = "awaiting"
               THEN "connecting" ELSE life
  /\ UNCHANGED <<transport, cl, call>>
  /\ UNCHANGED <<mgrVars, obsVars>>

\* client.connect(transport) settles; on success this.client = client
ClientConnectSettle(ok) ==
  /\ life = "connecting"
  /\ life' = "idle"
  /\ cl' = IF ok THEN [cl EXCEPT !.client = "session"] ELSE cl
  /\ UNCHANGED <<transport, call>>
  /\ UNCHANGED <<mgrVars, obsVars>>

\* disconnect(), up to `await this.client.close()`
ClientDisconnect ==
  /\ life = "idle"
  /\ IF cl.client = "null" THEN UNCHANGED life ELSE life' = "closing"
  /\ UNCHANGED <<transport, cl, call>>
  /\ UNCHANGED <<mgrVars, obsVars>>

\* disconnect(): the finally block.  The calls in flight are on a session that
\* is closed now ("stale"); their continuations have not run yet.
Disconnected(c) ==
  [cl   |-> [client |-> "null", pendingCalls |-> 0, callQueue |-> <<>>],
   call |-> [k \in Calls |-> IF c.call[k].pc = "inflight"
                               THEN [c.call[k] EXCEPT !.pc = "stale"]
                               ELSE c.call[k]]]

\* faulty variant: the reset follows close() instead of standing in a finally
ClientDisconnectSettleNoFinally(threw) ==
  /\ life = "closing"
  /\ life' = "idle"
  /\ cl' = IF threw THEN cl ELSE Disconnected(Cl).cl
  /\ call' = IF threw THEN call ELSE Disconnected(Cl).call
  /\ UNCHANGED transport
  /\ UNCHANGED <<mgrVars, obsVars>>

\* this.client.close() settles (resolves or throws)
ClientDisconnectSettle(threw) ==
  /\ life = "closing"
  /\ life' = "idle"
  /\ cl' = Disconnected(Cl).cl
  /\ call' = Disconnected(Cl).call
  /\ UNCHANGED transport
  /\ UNCHANGED <<mgrVars, obsVars>>

\* faulty variant: the finally block does not call the next resume callback
FinallyForgetsQueue(c, k, res) ==
  [c EXCEPT !.cl.pendingCalls = @ - 1,
            !.call[k].pc = "done",
            !.call[k].res = res]

\* faulty variant: the slot is given back only when the call succeeded
FinallyKeepsSlotOnFailure(c, k, res) ==
  LET q == c.cl.callQueue
      released == [c EXCEPT !.cl.pendingCalls = IF res = "ok" THEN @ - 1 ELSE @,
                            !.call[k].pc = "done",
                            !.call[k].res = res]
  IN
  IF q = <<>> THEN released
  ELSE [released EXCEPT !.cl.callQueue = Tail(q),
                        !.call[q[1]].pc = "woken"]

\* callTool: the finally block of invocation k, which settles with res
Finally(c, k, res) ==
  LET q == c.cl.callQueue
      released == [c EXCEPT !.cl.pendingCalls = @ - 1,
                            !.call[k].pc = "done",
                            !.call[k].res = res]
  IN
  IF q = <<>> THEN released
  ELSE [released EXCEPT !.cl.callQueue = Tail(q),
                        !.call[q[1]].pc = "woken"]

\* callTool from `this.pendingCalls++` on: the slot is taken and the request
\* is sent; with no session `this.client!.callTool` throws inside the try
Admitted(c, k) ==
  LET counted == [c EXCEPT !.cl.pendingCalls = @ + 1] IN
  IF c.cl.client = "null"
    THEN Finally(counted, k, "TypeError")
    ELSE [counted EXCEPT !.call[k].pc = "inflight"]

\* faulty variant: callTool without ensureConnected()
CallToolStepNoCheck(c, k) ==
  LET begun == [c EXCEPT !.call[k].op = "callTool"] IN
  IF c.cl.pendingCalls >= CONCURRENCY[transport]
    THEN [begun EXCEPT !.cl.callQueue = Append(@, k), !.call[k].pc = "queued"]
  ELSE Admitted(begun, k)

\* callTool(toolName, args, signal), up to its first await
CallToolStep(c, k) ==
  LET begun == [c EXCEPT !.call[k].op = "callTool"] IN
  IF c.cl.client = "null"
    \* ensureConnected() throws
    THEN [begun EXCEPT !.call[k].pc = "done", !.call[k].res = NotConnectedMsg]
  ELSE IF c.cl.pendingCalls >= CONCURRENCY[transport]
    THEN [begun EXCEPT !.cl.callQueue = Append(@, k), !.call[k].pc = "queued"]
  ELSE Admitted(begun, k)

CallTool(k) ==
  /\ CanCallTool(k)
  /\ cl' = CallToolStep(Cl, k).cl
  /\ call' = CallToolStep(Cl, k).call
  /\ UNCHANGED <<transport, life>>
  /\ UNCHANGED <<mgrVars, obsVars>>

\* a queued invocation resumes after its resume callback was called
Wake(k) ==
  /\ call[k].pc = "woken"
  /\ cl' = Admitted(Cl, k).cl
  /\ call' = Admitted(Cl, k).call
  /\ UNCHANGED <<transport, life>>
  /\ UNCHANGED <<mgrVars, obsVars>>

\* the request of invocation k settles: a result, or a failure (an error of
\* the transport, a timeout, a cancellation, the session closed)
Complete(k, res) ==
  /\ call[k].pc \in {"inflight", "stale"}
  /\ call[k].pc = "stale" => res = "error"
  /\ cl' = Finally(Cl, k, res).cl
  /\ call' = Finally(Cl, k, res).call
  /\ UNCHANGED <<transport, life>>
  /\ UNCHANGED <<mgrVars, obsVars>>

(***************************************************************************)
(* Strings: a text is the sequence of its characters                        *)
(***************************************************************************)
UpperCase == <<"A", "B", "C", "D", "E", "F", "G", "H", "I", "J", "K", "L", "M",
               "N", "O", "P", "Q", "R", "S", "T", "U", "V", "W", "X", "Y", "Z">>
LowerCase == <<"a", "b", "c", "d", "e", "f", "g", "h", "i", "j", "k", "l", "m",
               "n", "o", "p", "q", "r", "s", "t", "u", "v", "w", "x", "y", "z">>
Digits == <<"0", "1", "2", "3", "4", "5", "6", "7", "8", "9">>

Range(f) == {f[i] : i \in DOMAIN f}

\* String.prototype.toLowerCase, one character
toLowerCase(c) ==
  IF c \in Range(UpperCase)
    THEN LowerCase[CHOOSE i \in DOMAIN UpperCase : UpperCase[i] = c]
    ELSE c

\* the characters of the names that occur as endpoint names and operation names
Chars(s) ==
  CASE s = "read" -> <<"r", "e", "a", "d">>
    [] s = "write" -> <<"w", "r", "i", "t", "e">>
    [] s = "web" -> <<"w", "e", "b">>
    [] s = "a" -> <<"a">>
    [] s = "b" -> <<"b">>
    [] s = "_" -> <<"_">>
    [] s = "-" -> <<"-">>
    [] s = "A" -> <<"A">>
    [] s = "aa" -> <<"a", "a">>
    [] s = "ab" -> <<"a", "b">>
    [] s = "a_" -> <<"a", "_">>
    [] s = "a-" -> <<"a", "-">>
    [] s = "aA" -> <<"a", "A">>
    [] s = "ba" -> <<"b", "a">>
    [] s = "bb" -> <<"b", "b">>
    [] s = "b_" -> <<"b", "_">>
    [] s = "b-" -> <<"b", "-">>
    [] s = "bA" -> <<"b", "A">>
    [] s = "_a" -> <<"_", "a">>
    [] s = "_b" -> <<"_", "b">>
    [] s = "__" -> <<"_", "_">>
    [] s = "_-" -> <<"_", "-">>
    [] s = "_A" -> <<"_", "A">>
    [] s = "-a" -> <<"-", "a">>
    [] s = "-b" -> <<"-", "b">>
    [] s = "-_" -> <<"-", "_">>
    [] s = "--" -> <<"-", "-">>
    [] s = "-A" -> <<"-", "A">>
    [] s = "Aa" -> <<"A", "a">>
    [] s = "Ab" -> <<"A", "b">>
    [] s = "A_" -> <<"A", "_">>
    [] s = "A-" -> <<"A", "-">>
    [] s = "AA" -> <<"A", "A">>

\* the names over [a-z0-9_] and the names with other characters
PlainNames == {"a", "b", "_", "aa", "ab", "a_", "ba", "bb", "b_", "_a", "_b", "__"}
OtherNames == {"-", "A", "a-", "aA", "b-", "bA", "_-", "_A", "-a", "-b", "-_", "--", "-A", "Aa", "Ab", "A_", "A-", "AA"}
WordNames == {"read", "write", "web"}

(***************************************************************************)
(* Bridge and cached tool retrieval                                         *)
(***************************************************************************)
\* type ConnectionState
ConnectionStates == {"disconnected", "connecting", "connected", "error", "reconnecting"}

\* an optional list of names (allow?: string[]), absent or given
AbsentList == [present |-> FALSE, items |-> <<>>]
List(items) == [present |-> TRUE, items |-> items]
\* an optional ToolFilter, absent or given
AbsentFilter == [present |-> FALSE, allow |-> AbsentList, deny |-> AbsentList]

\* ManagedServer.config.toolFilter of the configured endpoints
ToolFilterOf(s) ==
  IF s = "a" THEN [present |-> TRUE, allow |-> AbsentList, deny |-> List(<<"write">>)]
             ELSE AbsentFilter

\* Array.prototype.includes
includes(items, x) == \E i \in 1..Len(items) : items[i] = x

\* faulty variant: the allow list is consulted before the deny list
passesFilterAllowFirst(toolName, filter) ==
  IF ~filter.present THEN TRUE
  ELSE IF filter.allow.present /\ Len(filter.allow.items) > 0
    THEN includes(filter.allow.items, toolName)
  ELSE IF filter.deny.present /\ includes(filter.deny.items, toolName) THEN FALSE
  ELSE TRUE

\* passesFilter(toolName, filter)
passesFilter(toolName, filter) ==
  IF ~filter.present THEN TRUE
  ELSE IF filter.deny.present /\ includes(filter.deny.items, toolName) THEN FALSE
  ELSE IF filter.allow.present /\ Len(filter.allow.items) > 0
    THEN includes(filter.allow.items, toolName)
  ELSE TRUE

\* [a-z0-9_]
IsNameChar(c) == c \in Range(LowerCase) \cup Range(Digits) \cup {"_"}

RECURSIVE CollapseFrom(_, _)
\* .replace(/_+/g, "_"), from index i on: of a run of underscores the first stays
CollapseFrom(t, i) ==
  IF i > Len(t) THEN <<>>
  ELSE (IF t[i] = "_" /\ i > 1 /\ t[i - 1] = "_" THEN <<>> ELSE <<t[i]>>)
       \o CollapseFrom(t, i + 1)

\* .replace(/^_|_$/g, ""): an underscore at the start and one at the end go
StripEnds(t) ==
  LET first == IF Len(t) >= 1 /\ t[1] = "_" THEN 2 ELSE 1
      last  == IF Len(t) >= first /\ t[Len(t)] = "_" THEN Len(t) - 1 ELSE Len(t)
  IN SubSeq(t, first, last)

\* normalizeToolName: the local function `safe`
safe(t) ==
  LET lowered  == [i \in 1..Len(t) |-> toLowerCase(t[i])]
      replaced == [i \in 1..Len(t) |-> IF IsNameChar(lowered[i]) THEN lowered[i] ELSE "_"]
  IN StripEnds(CollapseFrom(replaced, 1))

\* normalizeToolName(serverName, toolName)
normalizeToolName(serverName, toolName) ==
  <<"m", "c", "p", "_">> \o safe(Chars(serverName)) \o <<"_">> \o safe(Chars(toolName))

RECURSIVE createBridgedTools(_, _, _)
\* createBridgedTools(client, tools, config): one tool per operation that
\* passes the filter, in order; each is bound to `client` (the wrapper of
\* endpoint serverName with identity w)
createBridgedTools(client, tools, filter) ==
  IF tools = <<>> THEN <<>>
  ELSE (IF passesFilter(Head(tools), filter)
          THEN <<[name |-> normalizeToolName(client.serverName, Head(tools)),
                  serverName |-> client.serverName, label |-> Head(tools),
                  client |-> client.w]>>
          ELSE <<>>)
       \o createBridgedTools(client, Tail(tools), filter)

\* faulty variant: getCachedTools without the check of server.state
CachedOfAnyState(server) ==
  IF server.wrapper = 0 THEN <<>>
  ELSE createBridgedTools([serverName |-> server.name, w |-> server.wrapper],
                          server.tools, ToolFilterOf(server.name))

\* getCachedTools: the body of the loop, for one endpoint record
CachedOf(server) ==
  IF server.state # "connected" THEN <<>>
  ELSE IF server.wrapper = 0 THEN <<>>
  ELSE createBridgedTools([serverName |-> server.name, w |-> server.wrapper],
                          server.tools, ToolFilterOf(server.name))

RECURSIVE CachedFrom(_, _)
CachedFrom(srvs, i) ==
  IF i > Len(names) THEN <<>>
  ELSE CachedOf(srvs[names[i]]) \o CachedFrom(srvs, i + 1)

\* getCachedTools()
getCachedTools(srvs) == CachedFrom(srvs, 1)

\* a caller invokes getCachedTools()
GetCachedTools ==
  /\ cached' = [called |-> TRUE, tools |-> getCachedTools(servers)]
  /\ UNCHANGED <<mgrVars, cliVars, status, arg, out>>

(***************************************************************************)
(* Configuration: transport selection                                       *)
(***************************************************************************)
\* faulty variant: the url is looked at before the command
detectTransportUrlFirst(raw) ==
  IF Truthy(raw.transport) /\ raw.transport # "auto" THEN raw.transport
  ELSE IF Truthy(raw.url) THEN "http"
  ELSE IF Truthy(raw.command) THEN "stdio"
  ELSE "stdio"

\* detectTransport(raw)
detectTransport(raw) ==
  IF Truthy(raw.transport) /\ raw.transport # "auto" THEN raw.transport
  ELSE IF Truthy(raw.command) THEN "stdio"
  ELSE IF Truthy(raw.url) THEN "http"
  ELSE "stdio"

(***************************************************************************)
(* Trust policy: stripDangerous                                             *)
(***************************************************************************)
\* text has the literal lit at index i
StartsWith(text, i, lit) ==
  /\ i >= 1
  /\ i + Len(lit) - 1 <= Len(text)
  /\ \A k \in 1..Len(lit) : text[i + k - 1] = lit[k]

\* the same, ignoring case (flag i); lit is in lower case
StartsWithIgnoringCase(text, i, lit) ==
  /\ i >= 1
  /\ i + Len(lit) - 1 <= Len(text)
  /\ \A k \in 1..Len(lit) : toLowerCase(text[i + k - 1]) = lit[k]

\* the least index from i on that holds character c; 0 if there is none
IndexOf(text, c, i) ==
  IF \E j \in i..Len(text) : text[j] = c
    THEN CHOOSE j \in i..Len(text) : text[j] = c /\ \A k \in i..(j - 1) : text[k] # c
    ELSE 0

ScriptOpen == <<"<", "s", "c", "r", "i", "p", "t">>
ScriptClose == <<"<", "/", "s", "c", "r", "i", "p", "t", ">">>
ImageRemoved == <<"[", "i", "m", "a", "g", "e", " ", "r", "e", "m", "o", "v", "e", "d", "]">>
DataUriRemoved == <<"[", "d", "a", "t", "a", "-", "u", "r", "i", " ", "r", "e", "m", "o", "v", "e", "d", "]">>
HttpScheme == <<"h", "t", "t", "p", ":", "/", "/">>
HttpsScheme == <<"h", "t", "t", "p", "s", ":", "/", "/">>
DataScheme == <<"d", "a", "t", "a", ":">>

\* /<script[\s\S]*?<\/script>/gi at index i: the index of the nearest
\* closing tag that ends a match starting at i; 0 if there is no match at i
ScriptCloseAt(text, i) ==
  IF /\ StartsWithIgnoringCase(text, i, ScriptOpen)
     /\ \E j \in (i + Len(ScriptOpen))..Len(text) : StartsWithIgnoringCase(text, j, ScriptClose)
    THEN CHOOSE j \in (i + Len(ScriptOpen))..Len(text) :
           /\ StartsWithIgnoringCase(text, j, ScriptClose)
           /\ \A k \in (i + Len(ScriptOpen))..(j - 1) : ~StartsWithIgnoringCase(text, k, ScriptClose)
    ELSE 0

RECURSIVE RemoveScripts(_, _)
\* .replace(/<script[\s\S]*?<\/script>/gi, ""), from index i on
RemoveScripts(text, i) ==
  IF i > Len(text) THEN <<>>
  ELSE IF ScriptCloseAt(text, i) # 0
    THEN RemoveScripts(text, ScriptCloseAt(text, i) + Len(ScriptClose))
    ELSE <<text[i]>> \o RemoveScripts(text, i + 1)

\* /<[^>]+>/g at index i: the index of the '>' that ends a match starting at
\* i; 0 if there is no match at i
TagCloseAt(text, i) ==
  IF text[i] = "<" /\ IndexOf(text, ">", i + 1) >= i + 2
    THEN IndexOf(text, ">", i + 1)
    ELSE 0

RECURSIVE RemoveTags(_, _)
\* .replace(/<[^>]+>/g, ""), from index i on
RemoveTags(text, i) ==
  IF i > Len(text) THEN <<>>
  ELSE IF TagCloseAt(text, i) # 0
    THEN RemoveTags(text, TagCloseAt(text, i) + 1)
    ELSE <<text[i]>> \o RemoveTags(text, i + 1)

\* /!\[[^\]]*\]\(https?:\/\/[^)]+\)/g at index i: the index of the ')' that
\* ends a match starting at i; 0 if there is no match at i
ImageCloseAt(text, i) ==
  LET bracket == IndexOf(text, "]", i + 2)
      scheme  == bracket + 2
      url     == IF StartsWith(text, scheme, HttpScheme) THEN scheme + Len(HttpScheme)
                 ELSE IF StartsWith(text, scheme, HttpsScheme) THEN scheme + Len(HttpsScheme)
                 ELSE 0
      paren   == IndexOf(text, ")", url)
  IN
  IF /\ StartsWith(text, i, <<"!", "[">>)
     /\ bracket # 0
     /\ StartsWith(text, bracket + 1, <<"(">>)
     /\ url # 0
     /\ paren > url
    THEN paren
    ELSE 0

RECURSIVE RemoveImages(_, _)
\* .replace(/!\[[^\]]*\]\(https?:\/\/[^)]+\)/g, "[image removed]"), from index i on
RemoveImages(text, i) ==
  IF i > Len(text) THEN <<>>
  ELSE IF ImageCloseAt(text, i) # 0
    THEN ImageRemoved \o RemoveImages(text, ImageCloseAt(text, i) + 1)
    ELSE <<text[i]>> \o RemoveImages(text, i + 1)

\* [\w+/=]
IsPayloadChar(c) ==
  c \in Range(LowerCase) \cup Range(UpperCase) \cup Range(Digits) \cup {"_", "+", "/", "="}

\* /data:[^,]+,[\w+/=]+/g at index i: the index of the last character of a
\* match starting at i; 0 if there is no match at i
DataUriEndAt(text, i) ==
  LET comma == IndexOf(text, ",", i + Len(DataScheme)) IN
  IF /\ StartsWith(text, i, DataScheme)
     /\ comma > i + Len(DataScheme)
     /\ comma + 1 <= Len(text)
     /\ IsPayloadChar(text[comma + 1])
    THEN CHOOSE e \in (comma + 1)..Len(text) :
           /\ \A k \in (comma + 1)..e : IsPayloadChar(text[k])
           /\ e < Len(text) => ~IsPayloadChar(text[e + 1])
    ELSE 0

RECURSIVE RemoveDataUris(_, _)
\* .replace(/data:[^,]+,[\w+/=]+/g, "[data-uri removed]"), from index i on
RemoveDataUris(text, i) ==
  IF i > Len(text) THEN <<>>
  ELSE IF DataUriEndAt(text, i) # 0
    THEN DataUriRemoved \o RemoveDataUris(text, DataUriEndAt(text, i) + 1)
    ELSE <<text[i]>> \o RemoveDataUris(text, i + 1)

\* stripDangerous(text)
stripDangerous(text) ==
  RemoveDataUris(RemoveImages(RemoveTags(RemoveScripts(text, 1), 1), 1), 1)

(***************************************************************************)
(* Trust policy: truncate, applyTrustToText, applyTrustPolicy               *)
(***************************************************************************)
\* the character U+2014 (em dash), one character of the text
EmDash == "U+2014"

UNTRUSTED_PREFIX ==
  <<"[", "M", "C", "P", ":", " ", "u", "n", "t", "r", "u", "s", "t", "e",
    "d", " ", "s", "o", "u", "r", "c", "e", " ", EmDash, " ", "t", "r",
    "e", "a", "t", " ", "w", "i", "t", "h", " ", "c", "a", "u", "t", "i",
    "o", "n", "]", "\n", "\n">>
SANITIZE_PREFIX ==
  <<"[", "M", "C", "P", ":", " ", "s", "a", "n", "i", "t", "i", "z", "e",
    "d", " ", "r", "e", "s", "u", "l", "t", " ", EmDash, " ", "o", "r",
    "i", "g", "i", "n", "a", "l", " ", "c", "o", "n", "t", "e", "n", "t",
    " ", "m", "a", "y", " ", "h", "a", "v", "e", " ", "c", "o", "n", "t",
    "a", "i", "n", "e", "d", " ", "i", "n", "j", "e", "c", "t", "i", "o",
    "n", "s", "]", "\n", "\n">>
TruncatedAt == <<"\n", "\n", "[", ".", ".", ".", "t", "r", "u", "n", "c", "a", "t", "e", "d", " ", "a", "t", " ">>
CharsMark == <<" ", "c", "h", "a", "r", "s", "]">>
ResourceLabel == <<"R", "e", "s", "o", "u", "r", "c", "e", ":", " ">>
ImageNotice ==
  <<"[", "i", "m", "a", "g", "e", " ", "c", "o", "n", "t", "e", "n", "t",
    " ", "r", "e", "m", "o", "v", "e", "d", " ", "b", "y", " ", "s", "a",
    "n", "i", "t", "i", "z", "e", " ", "p", "o", "l", "i", "c", "y", "]">>

RECURSIVE Decimal(_)
\* `${maxChars}` for a natural number
Decimal(n) ==
  IF n < 10 THEN <<Digits[n + 1]>>
  ELSE Decimal(n \div 10) \o <<Digits[(n % 10) + 1]>>

\* faulty variant: the marker tells the length of the text that was cut
truncateReportsLength(text, maxChars) ==
  IF Len(text) <= maxChars THEN text
  ELSE SubSeq(text, 1, maxChars) \o TruncatedAt \o Decimal(Len(text)) \o CharsMark

\* truncate(text, maxChars)
truncate(text, maxChars) ==
  IF Len(text) <= maxChars THEN text
  ELSE SubSeq(text, 1, maxChars) \o TruncatedAt \o Decimal(maxChars) \o CharsMark

\* faulty variant: under sanitize the text is truncated before it is filtered
applyTrustToTextTruncatesFirst(text, trust, maxChars) ==
  CASE trust = "trusted" -> truncate(text, maxChars)
    [] trust = "untrusted" -> UNTRUSTED_PREFIX \o truncate(text, maxChars)
    [] trust = "sanitize" -> SANITIZE_PREFIX \o stripDangerous(truncate(text, maxChars))

\* applyTrustToText(text, trust, maxChars)
applyTrustToText(text, trust, maxChars) ==
  CASE trust = "trusted" -> truncate(text, maxChars)
    [] trust = "untrusted" -> UNTRUSTED_PREFIX \o truncate(text, maxChars)
    [] trust = "sanitize" -> SANITIZE_PREFIX \o truncate(stripDangerous(text), maxChars)

\* content blocks; an optional field of a resource is absent or given
TextBlock(text) == [type |-> "text", text |-> text]
ImageBlock(data, mimeType) == [type |-> "image", data |-> data, mimeType |-> mimeType]
Absent == [present |-> FALSE, value |-> <<>>]
Some(v) == [present |-> TRUE, value |-> v]
ResourceBlock(uri, text) == [type |-> "resource", resource |-> [uri |-> uri, text |-> text]]

\* block.resource.text ?? other
OrElse(opt, other) == IF opt.present THEN opt.value ELSE other

\* faulty variant: under sanitize an image is skipped, nothing is pushed for it
ProcessedSkipsImages(block, trust, maxChars) ==
  CASE block.type = "text" ->
         <<TextBlock(applyTrustToText(block.text, trust, maxChars))>>
    [] block.type = "image" ->
         IF trust = "sanitize" THEN <<>> ELSE <<block>>
    [] block.type = "resource" ->
         IF trust \in {"sanitize", "untrusted"}
           THEN <<TextBlock(applyTrustToText(
                    ResourceLabel \o block.resource.uri \o <<"\n">>
                      \o OrElse(block.resource.text, <<>>), trust, maxChars))>>
           ELSE <<TextBlock(OrElse(block.resource.text,
                                   ResourceLabel \o block.resource.uri))>>

\* faulty variant: an image passes under every trust level
ProcessedKeepsImages(block, trust, maxChars) ==
  CASE block.type = "text" ->
         <<TextBlock(applyTrustToText(block.text, trust, maxChars))>>
    [] block.type = "image" -> <<block>>
    [] block.type = "resource" ->
         IF trust \in {"sanitize", "untrusted"}
           THEN <<TextBlock(applyTrustToText(
                    ResourceLabel \o block.resource.uri \o <<"\n">>
                      \o OrElse(block.resource.text, <<>>), trust, maxChars))>>
           ELSE <<TextBlock(OrElse(block.resource.text,
                                   ResourceLabel \o block.resource.uri))>>

\* applyTrustPolicy, the body of the loop: what is pushed for one block
Processed(block, trust, maxChars) ==
  CASE block.type = "text" ->
         <<TextBlock(applyTrustToText(block.text, trust, maxChars))>>
    [] block.type = "image" ->
         IF trust = "sanitize" THEN <<TextBlock(ImageNotice)>> ELSE <<block>>
    [] block.type = "resource" ->
         IF trust \in {"sanitize", "untrusted"}
           THEN <<TextBlock(applyTrustToText(
                    ResourceLabel \o block.resource.uri \o <<"\n">>
                      \o OrElse(block.resource.text, <<>>), trust, maxChars))>>
           ELSE <<TextBlock(OrElse(block.resource.text,
                                   ResourceLabel \o block.resource.uri))>>

RECURSIVE ProcessedFrom(_, _, _, _)
\* applyTrustPolicy, the loop from block i on
ProcessedFrom(content, i, trust, maxChars) ==
  IF i > Len(content) THEN <<>>
  ELSE Processed(content[i], trust, maxChars) \o ProcessedFrom(content, i + 1, trust, maxChars)

\* applyTrustPolicy(result, trust, maxChars)
applyTrustPolicy(result, trust, maxChars) ==
  IF trust = "trusted" /\ \A i \in 1..Len(result.content) : result.content[i].type = "text"
    THEN [result EXCEPT !.content =
            [i \in 1..Len(result.content) |->
               [result.content[i] EXCEPT !.text = truncate(@, maxChars)]]]
    ELSE [content |-> ProcessedFrom(result.content, 1, trust, maxChars),
          isError |-> result.isError]

(***************************************************************************)
(* Bridge: convertResult and the execute function of a bridged tool         *)
(***************************************************************************)
McpErrorMark == <<"[", "M", "C", "P", " ", "E", "r", "r", "o", "r", "]", " ">>
UnknownError == <<"U", "n", "k", "n", "o", "w", "n", " ", "e", "r", "r", "o", "r">>
EmptyResult == <<"(", "e", "m", "p", "t", "y", " ", "r", "e", "s", "u", "l", "t", ")">>
\* JSON.stringify(block, null, 2) of a block that is neither text nor image;
\* applyTrustPolicy returns no such block for content of type ToolContent
Stringified == <<"{", ".", ".", ".", "}">>

RECURSIVE JoinTexts(_, _)
\* content.filter(type === "text").map(text).join("\n"), from block i on;
\* first: no text has been emitted yet
JoinTexts(content, first) ==
  IF content = <<>> THEN <<>>
  ELSE IF Head(content).type # "text" THEN JoinTexts(Tail(content), first)
  ELSE (IF first THEN <<>> ELSE <<"\n">>) \o Head(content).text
       \o JoinTexts(Tail(content), FALSE)

\* convertResult: the block pushed for one block of the secured result
Converted(block) ==
  CASE block.type = "text" -> TextBlock(block.text)
    [] block.type = "image" -> ImageBlock(block.data, block.mimeType)
    [] OTHER -> TextBlock(Stringified)

\* faulty variant: the error flag of the result is not looked at
convertResultIgnoresFlag(result, trust, maxResultChars) ==
  LET secured == applyTrustPolicy(result, trust, maxResultChars)
      content == [i \in 1..Len(secured.content) |-> Converted(secured.content[i])]
  IN
  [content |-> IF Len(content) = 0 THEN <<TextBlock(EmptyResult)>> ELSE content,
   details |-> [mcpResult |-> TRUE]]

\* convertResult(result, config), with config.trust and config.maxResultChars
convertResult(result, trust, maxResultChars) ==
  LET secured   == applyTrustPolicy(result, trust, maxResultChars)
      content   == [i \in 1..Len(secured.content) |-> Converted(secured.content[i])]
      errorText == JoinTexts(content, TRUE)
  IN
  IF secured.isError
    THEN [content |-> <<TextBlock(McpErrorMark \o
                          (IF errorText # <<>> THEN errorText ELSE UnknownError))>>,
          details |-> [error |-> TRUE, serverError |-> TRUE]]
    ELSE [content |-> IF Len(content) = 0 THEN <<TextBlock(EmptyResult)>> ELSE content,
          details |-> [mcpResult |-> TRUE]]

\* how a promise has settled
Rejected(error) == [rejected |-> TRUE, error |-> error]
Resolved(result) == [rejected |-> FALSE, result |-> result]

\* execute of a bridged tool, after `await client.callTool(...)` has settled:
\* a rejection propagates, a result is converted and returned
ExecuteReturn(settled, trust, maxResultChars) ==
  IF settled.rejected
    THEN [returned |-> TRUE, threw |-> TRUE, error |-> settled.error]
    ELSE [returned |-> TRUE, threw |-> FALSE,
          value |-> convertResult(settled.result, trust, maxResultChars)]

(***************************************************************************)
(* Protocol client: listTools, and execute as the caller of callTool        *)
(***************************************************************************)
\* listTools(), up to its first await
ListToolsStep(c, k) ==
  LET begun == [c EXCEPT !.call[k].op = "listTools"] IN
  IF c.cl.client = "null"
    \* ensureConnected() throws
    THEN [begun EXCEPT !.call[k].pc = "done", !.call[k].res = NotConnectedMsg]
    \* this.client.listTools() is in flight
    ELSE [begun EXCEPT !.call[k].pc = "listing"]

ListTools(k) ==
  /\ CanCallTool(k)
  /\ cl' = ListToolsStep(Cl, k).cl
  /\ call' = ListToolsStep(Cl, k).call
  /\ UNCHANGED <<transport, life>>
  /\ UNCHANGED <<mgrVars, obsVars>>

\* this.client.listTools() settles: the list, or a failure
ListToolsSettle(k, res) ==
  /\ call[k].pc = "listing"
  /\ call' = [call EXCEPT ![k].pc = "done", ![k].res = res]
  /\ UNCHANGED <<transport, cl, life>>
  /\ UNCHANGED <<mgrVars, obsVars>>

\* what callTool resolves with when the server answers
OkResult == [content |-> <<TextBlock(<<"o", "k">>)>>, isError |-> FALSE]
\* how the promise of callTool has settled, for an invocation that is done
Settled(res) == IF res = "ok" THEN Resolved(OkResult) ELSE Rejected(res)

\* execute resumes after `await client.callTool(...)`: it throws what callTool
\* rejected with, or converts the result (trust trusted, maxResultChars 12)
ExecuteResume(k) ==
  /\ call[k].pc = "done"
  /\ call[k].op = "callTool"
  /\ call' = [call EXCEPT ![k].pc = "returned",
                          ![k].ret = ExecuteReturn(Settled(call[k].res), "trusted", 12)]
  /\ UNCHANGED <<transport, cl, life>>
  /\ UNCHANGED <<mgrVars, obsVars>>

(***************************************************************************)
(* The pure functions applied to arguments                                  *)
(***************************************************************************)
(***************************************************************************)
(* Bridge: a tool that was handed out is invoked                            *)
(***************************************************************************)
\* faulty variant: execute looks the client up by the endpoint's name
BoundClientByName(tool) == servers[tool.serverName].wrapper

\* the `client` the execute closure of a bridged tool has captured
BoundClient(tool) == tool.client

\* the field client of wrapper w of endpoint s
WrapperClient(s, w) ==
  IF w \in DOMAIN wrappers[s] THEN wrappers[s][w].client ELSE "null"

\* execute of a bridged tool up to the first await of client.callTool: it has
\* thrown what ensureConnected threw, or the request is sent
ExecuteStep(tool) ==
  LET w == BoundClient(tool)
      c == [cl   |-> [NewClient EXCEPT !.client = WrapperClient(tool.serverName, w)],
            call |-> [k \in Calls |-> IdleCall]]
      begun == CallToolStep(c, 1).call[1]
  IN
  IF begun.pc = "done"
    THEN [ExecuteReturn(Rejected(begun.res), "trusted", 12) EXCEPT !.returned = TRUE]
    ELSE [returned |-> TRUE, threw |-> FALSE, error |-> "none"]

\* the i-th tool of the list getCachedTools returned last is invoked
InvokeTool(i) ==
  /\ i \in 1..Len(cached.tools)
  /\ out' = [tool |-> cached.tools[i]] @@ ExecuteStep(cached.tools[i])
  /\ UNCHANGED <<mgrVars, cliVars, cached, status, arg>>

\* longest discovered list and longest allow/deny list tried
MaxTools == 3
MaxListLen == 2

SeqsUpTo(S, n) == UNION {[1..k -> S] : k \in 0..n}
Distinct(q) == \A i, j \in 1..Len(q) : i # j => q[i] # q[j]

\* toolFilter values: absent, or allow and deny each absent or a list of names
FilterLists == {AbsentList} \cup {List(q) : q \in SeqsUpTo(WordNames, MaxListLen)}
Filters == {AbsentFilter} \cup
           {[present |-> TRUE, allow |-> a, deny |-> d] : a \in FilterLists, d \in FilterLists}

\* createBridgedTools is tried on an endpoint with up to MaxTools operations
\* under every filter, and on two operations of every pair of different names
BridgeArgs ==
  {[fn |-> "createBridgedTools", serverName |-> "web", tools |-> tl, filter |-> f] :
     tl \in {q \in SeqsUpTo(WordNames, MaxTools) : Distinct(q)}, f \in Filters}
  \cup
  {[fn |-> "createBridgedTools", serverName |-> sn, tools |-> tl, filter |-> AbsentFilter] :
     sn \in {"a", "_b"},
     tl \in {q \in [1..2 -> PlainNames \cup OtherNames] : Distinct(q)}}

\* createBridgedTools(client, tools, config) is called
CreateBridgedTools ==
  /\ arg.fn = "createBridgedTools"
  /\ ~out.returned
  /\ out' = [returned |-> TRUE,
             value |-> createBridgedTools([serverName |-> arg.serverName, w |-> 1],
                                          arg.tools, arg.filter)]
  /\ UNCHANGED <<mgrVars, cliVars, cached, status, arg>>

\* longest text tried, in pieces
MaxPieces == 4

\* the pieces the texts are put together from
Pieces ==
  {<<"<", "s", "c", "r", "i", "p", "t">>,
   <<"<", "/", "S", "C", "R", "I", "P", "T", ">">>,
   <<"<">>,
   <<">">>,
   <<"b">>,
   <<"!", "[", "b", "]", "(", "h", "t", "t", "p", "s", ":", "/", "/", "b", ")">>,
   <<"d", "a", "t", "a", ":", "b", ",", "b", "=">>}

RECURSIVE Flatten(_)
\* the text made of the pieces in q
Flatten(q) == IF q = <<>> THEN <<>> ELSE Head(q) \o Flatten(Tail(q))

Texts == {Flatten(q) : q \in SeqsUpTo(Pieces, MaxPieces)}

SanitizeArgs == {[fn |-> "stripDangerous", text |-> t] : t \in Texts}

\* stripDangerous(text) is called
StripDangerous ==
  /\ arg.fn = "stripDangerous"
  /\ ~out.returned
  /\ out' = [returned |-> TRUE, value |-> stripDangerous(arg.text)]
  /\ UNCHANGED <<mgrVars, cliVars, cached, status, arg>>

\* longest result tried, in blocks
MaxBlocks == 3

TrustLevels == {"trusted", "untrusted", "sanitize"}
\* values of maxResultChars tried: below and above the lengths of the texts
MaxCharsTried == {2, 12}

\* the blocks the results are put together from
Blocks ==
  {TextBlock(<<"a", "b">>),
   TextBlock(<<"<", "b", ">", "c", "d", "e">>),
   ImageBlock("iVBORw0KGgo=", "image/png"),
   ImageBlock("R0lGODlh", "image/gif"),
   ResourceBlock(<<"f", ":", "/", "r">>, Absent),
   ResourceBlock(<<"f", ":", "/", "s">>, Some(<<"x", "<", "y", ">", "z">>))}

\* ToolCallResult values
Results == [content : SeqsUpTo(Blocks, MaxBlocks), isError : BOOLEAN]

PolicyArgs ==
  {[fn |-> "applyTrustPolicy", result |-> r, trust |-> tr, maxChars |-> mc] :
     r \in Results, tr \in TrustLevels, mc \in MaxCharsTried}

\* applyTrustPolicy(result, trust, maxChars) is called
ApplyTrustPolicy ==
  /\ arg.fn = "applyTrustPolicy"
  /\ ~out.returned
  /\ out' = [returned |-> TRUE,
             value |-> applyTrustPolicy(arg.result, arg.trust, arg.maxChars)]
  /\ UNCHANGED <<mgrVars, cliVars, cached, status, arg>>

\* execute is tried on every way client.callTool can have settled
ExecuteArgs ==
  {[fn |-> "execute", settled |-> st, trust |-> tr, maxChars |-> mc] :
     st \in {Rejected(e) : e \in {NotConnectedMsg, "error"}} \cup {Resolved(r) : r \in Results},
     tr \in TrustLevels, mc \in MaxCharsTried}

\* the execute function of a bridged tool resumes after client.callTool
Execute ==
  /\ arg.fn = "execute"
  /\ ~out.returned
  /\ out' = ExecuteReturn(arg.settled, arg.trust, arg.maxChars)
  /\ UNCHANGED <<mgrVars, cliVars, cached, status, arg>>

\* texts and limits truncate is tried on: every text of up to MaxTextLen
\* characters, limits from 1 to beyond the longest text
MaxTextLen == 4
TruncateArgs ==
  {[fn |-> "truncate", text |-> t, maxChars |-> n] :
     t \in SeqsUpTo({"a", "b"}, MaxTextLen), n \in 1..(MaxTextLen + 1)}

\* truncate(text, maxChars) is called, and then called on what it returned
Truncate ==
  /\ arg.fn = "truncate"
  /\ ~out.returned
  /\ out' = [returned |-> TRUE,
             once  |-> truncate(arg.text, arg.maxChars),
             twice |-> truncate(truncate(arg.text, arg.maxChars), arg.maxChars)]
  /\ UNCHANGED <<mgrVars, cliVars, cached, status, arg>>

\* raw endpoint configurations: transport, command and url each absent or given
RawConfigs ==
  [transport : {"absent", "stdio", "http", "sse", "auto"},
   command : {"absent", "", "npx", "node"},
   url : {"absent", "", "https://mcp.example.com", "http://localhost"}]

ConfigArgs == {[fn |-> "detectTransport", raw |-> r] : r \in RawConfigs}

\* detectTransport(raw) is called
DetectTransport ==
  /\ arg.fn = "detectTransport"
  /\ ~out.returned
  /\ out' = [returned |-> TRUE, value |-> detectTransport(arg.raw)]
  /\ UNCHANGED <<mgrVars, cliVars, cached, status, arg>>

\* endpoint configurations a wrapper can be constructed with: any transport
\* type, command and url each absent or given
ClientConfigs ==
  [transport : {"stdio", "http", "sse", "auto"},
   command : {"absent", "", "npx", "node"},
   url : {"absent", "", "https://mcp.example.com", "http://localhost"}]

ConnectArgs ==
  {[fn |-> "connect", client |-> c, config |-> cfg] :
     c \in {"null", "session"}, cfg \in ClientConfigs}

\* connect() is called on a wrapper with or without a session
Connect ==
  /\ arg.fn = "connect"
  /\ ~out.returned
  /\ out' = [returned |-> TRUE, value |-> connect(arg.client, arg.config)]
  /\ UNCHANGED <<mgrVars, cliVars, cached, status, arg>>

(***************************************************************************)
(* Manager: status reads                                                    *)
(***************************************************************************)
\* names a caller may pass to getServerStatus: the configured ones and one
\* that is not configured
StatusNames == Servers \cup {"zz"}

\* faulty variant: reading the status acknowledges (clears) the stored error
VisitedClearsError(server) ==
  [server EXCEPT !.error = "none"]

\* the endpoint record after the callback of getStatus or the body of
\* getServerStatus has run on it: they read its fields and assign none
Visited(server) ==
  server

\* faulty variant: the status entry carries no error message
StatusOfHidesError(s) ==
  [name |-> s.name, state |-> s.state, toolCount |-> Len(s.tools), tools |-> s.tools,
   error |-> "none", lastPing |-> s.lastPing]

\* the McpServerStatus built from one endpoint record (the transport of the
\* endpoint's configuration, which nothing changes, is left out)
StatusOf(s) ==
  [name |-> s.name, state |-> s.state, toolCount |-> Len(s.tools), tools |-> s.tools,
   error |-> s.error, lastPing |-> s.lastPing]

\* getStatus(): one entry per endpoint, in the order of the map
getStatus(srvs) ==
  [i \in 1..Len(names) |-> StatusOf(srvs[names[i]])]

\* getServerStatus(name): null for a name that is not configured
getServerStatus(srvs, name) ==
  IF name \notin Servers THEN <<>> ELSE <<StatusOf(srvs[name])>>

\* a caller invokes getStatus()
GetStatus ==
  /\ status' = [called |-> TRUE, op |-> "getStatus", result |-> getStatus(servers)]
  /\ servers' = [s \in Servers |-> Visited(servers[s])]
  /\ UNCHANGED <<names, retries, wrappers, task, caller>>
  /\ UNCHANGED <<cliVars, cached, arg, out>>

\* a caller invokes getServerStatus(name)
GetServerStatus(name) ==
  /\ status' = [called |-> TRUE, op |-> "getServerStatus",
                result |-> getServerStatus(servers, name)]
  /\ servers' = [s \in Servers |-> IF s = name THEN Visited(servers[s]) ELSE servers[s]]
  /\ UNCHANGED <<names, retries, wrappers, task, caller>>
  /\ UNCHANGED <<cliVars, cached, arg, out>>

(***************************************************************************)
(* Specifications                                                           *)
(***************************************************************************)
\* the manager after construction, for a configuration with the given enabled
\* endpoint names
Constructed(keys) ==
  /\ names = keys
  /\ retries \in 0..MaxRetries
  /\ servers = [s \in Servers |-> InitialServer(s)]
  /\ wrappers = [s \in Servers |-> [w \in {} |-> NewWrapper]]
  /\ task = [t \in Tasks |-> IdleTask]
  /\ caller = [c \in Callers |-> IdleCaller]

\* a client after construction
ClientConstructed(tr) ==
  /\ transport = tr
  /\ cl = NewClient
  /\ life = "idle"
  /\ call = [k \in Calls |-> IdleCall]

NeverCached == [called |-> FALSE, tools |-> <<>>]
NeverRead == [called |-> FALSE, op |-> "none", result |-> <<>>]
NoArg == [fn |-> "none"]
NoOut == [returned |-> FALSE]

\* nothing has been read or computed yet
NothingObserved ==
  /\ cached = NeverCached
  /\ status = NeverRead
  /\ arg = NoArg
  /\ out = NoOut

Next ==
  \/ \E c \in Callers, n \in Servers : CallConnectServer(c, n)
  \/ \E c \in Callers, n \in Servers : CallDisconnectServer(c, n)
  \/ \E c \in Callers : CallConnectAll(c)
  \/ \E c \in Callers : CallDisconnectAll(c)
  \/ \E t \in Tasks : ConnectOk(t)
  \/ \E t \in Tasks, e \in ErrMsgs : ConnectFail(t, e)
  \/ \E t \in Tasks, tl \in ToolLists : ListOk(t, tl)
  \/ \E t \in Tasks, e \in ErrMsgs : ListFail(t, e)
  \/ \E t \in Tasks : BackoffDone(t)
  \/ \E t \in Tasks : OwnerResume(t)
  \/ \E t \in Tasks : JoinResume(t)
  \/ \E t \in Tasks, threw \in BOOLEAN : CloseDone(t, threw)
  \/ \E t \in Tasks : DisconnectResume(t)
  \/ \E c \in Callers : SweepResume(c)

\* the manager of one enabled endpoint
Init ==
  /\ Constructed(<<"a">>)
  /\ ClientConstructed("stdio")
  /\ NothingObserved
Spec == Init /\ [][Next]_vars

\* the manager of two enabled endpoints
SweepInit ==
  /\ Constructed(<<"a", "b">>)
  /\ ClientConstructed("stdio")
  /\ NothingObserved
SweepSpec == SweepInit /\ [][Next]_vars

\* the manager of one enabled endpoint where every attempt settles, every
\* backoff timer fires and the event loop runs every continuation
RetrySpec ==
  /\ Init
  /\ [][Next]_vars
  /\ \A t \in Callers \X {"a"} :
       /\ WF_vars(ConnectOk(t) \/ \E e \in ErrMsgs : ConnectFail(t, e))
       /\ WF_vars(\E tl \in ToolLists : ListOk(t, tl) \/ \E e \in ErrMsgs : ListFail(t, e))
       /\ WF_vars(BackoffDone(t))
       /\ WF_vars(OwnerResume(t))
       /\ WF_vars(JoinResume(t))

\* the manager of one enabled endpoint whose sessions can break
FaultNext ==
  \/ Next
  \/ \E s \in Servers, e \in ErrMsgs : TransportError(s, e)

FaultSpec == Init /\ [][FaultNext]_vars

\* the manager of one endpoint, with callers of connectServer and
\* disconnectServer, of getCachedTools and of the tools.  The callers find the
\* endpoint either as the constructor left it or connected by an earlier
\* connectServer that has returned (the state its success block leaves).
ToolInit ==
  /\ names = <<"a">>
  /\ retries \in 0..MaxRetries
  /\ \/ /\ servers = [s \in Servers |-> InitialServer(s)]
        /\ wrappers = [s \in Servers |-> [w \in {} |-> NewWrapper]]
     \/ /\ \E tl \in ToolLists :
             servers = [s \in Servers |->
                          [InitialServer(s) EXCEPT !.state = "connected", !.client = 1,
                                                   !.wrapper = 1, !.tools = tl,
                                                   !.lastPing = 1]]
        /\ wrappers = [s \in Servers |-> <<[NewWrapper EXCEPT !.client = "session"]>>]
  /\ task = [t \in Tasks |-> IdleTask]
  /\ caller = [c \in Callers |-> IdleCaller]
  /\ ClientConstructed("stdio")
  /\ NothingObserved

ToolNext ==
  \/ Next
  \/ GetCachedTools
  \/ \E i \in 1..MaxTools : InvokeTool(i)

ToolSpec == ToolInit /\ [][ToolNext]_vars

\* the manager of one enabled endpoint, with callers of the status functions
\* and of getCachedTools
ReadNext ==
  \/ Next
  \/ GetStatus
  \/ \E n \in StatusNames : GetServerStatus(n)
  \/ GetCachedTools

ReadSpec == Init /\ [][ReadNext]_vars

\* one client of any transport type, its owner and the callers of callTool
ClientInit ==
  /\ names = <<>>
  /\ retries = 0
  /\ servers = [s \in Servers |-> InitialServer(s)]
  /\ wrappers = [s \in Servers |-> [w \in {} |-> NewWrapper]]
  /\ task = [t \in Tasks |-> IdleTask]
  /\ caller = [c \in Callers |-> IdleCaller]
  /\ \E tr \in Transports : ClientConstructed(tr)
  /\ NothingObserved

ClientNext ==
  \/ ClientConnect
  \/ \E ok \in BOOLEAN : ClientConnectSettle(ok)
  \/ ClientDisconnect
  \/ \E threw \in BOOLEAN : ClientDisconnectSettle(threw)
  \/ \E k \in Calls : CallTool(k)
  \/ \E k \in Calls : Wake(k)
  \/ \E k \in Calls, res \in {"ok", "error"} : Complete(k, res)
  \/ \E k \in Calls : ListTools(k)
  \/ \E k \in Calls, res \in {"ok", "error"} : ListToolsSettle(k, res)
  \/ \E k \in Calls : ExecuteResume(k)

ClientSpec == ClientInit /\ [][ClientNext]_vars

\* one client that is connected once and never disconnected.  The event loop
\* runs the continuation of every released caller, and every request that was
\* sent settles.
LiveNext ==
  \/ ClientConnect
  \/ ClientConnectSettle(TRUE)
  \/ \E k \in Calls : CallTool(k)
  \/ \E k \in Calls : Wake(k)
  \/ \E k \in Calls, res \in {"ok", "error"} : Complete(k, res)

LiveSpec ==
  /\ ClientInit
  /\ [][LiveNext]_vars
  /\ \A k \in Calls : WF_vars(Wake(k))
  /\ \A k \in Calls : WF_vars(\E res \in {"ok", "error"} : Complete(k, res))

\* no manager and no call in progress: the pure functions are studied alone
NoProgram ==
  /\ names = <<>>
  /\ retries = 0
  /\ servers = [s \in Servers |-> InitialServer(s)]
  /\ wrappers = [s \in Servers |-> [w \in {} |-> NewWrapper]]
  /\ task = [t \in Tasks |-> IdleTask]
  /\ caller = [c \in Callers |-> IdleCaller]
  /\ ClientConstructed("stdio")
  /\ cached = NeverCached
  /\ status = NeverRead

BridgeInit ==
  /\ NoProgram
  /\ arg \in BridgeArgs
  /\ out = NoOut

BridgeNext == CreateBridgedTools

BridgeSpec == BridgeInit /\ [][BridgeNext]_vars

SanitizeInit ==
  /\ NoProgram
  /\ arg \in SanitizeArgs
  /\ out = NoOut

SanitizeNext == StripDangerous

SanitizeSpec == SanitizeInit /\ [][SanitizeNext]_vars

PolicyInit ==
  /\ NoProgram
  /\ arg \in PolicyArgs
  /\ out = NoOut

PolicyNext == ApplyTrustPolicy

PolicySpec == PolicyInit /\ [][PolicyNext]_vars

ExecuteInit ==
  /\ NoProgram
  /\ arg \in ExecuteArgs
  /\ out = NoOut

ExecuteNext == Execute

ExecuteSpec == ExecuteInit /\ [][ExecuteNext]_vars

ConfigInit ==
  /\ NoProgram
  /\ arg \in ConfigArgs
  /\ out = NoOut

ConfigNext == DetectTransport

ConfigSpec == ConfigInit /\ [][ConfigNext]_vars

TruncateInit ==
  /\ NoProgram
  /\ arg \in TruncateArgs
  /\ out = NoOut

TruncateNext == Truncate

TruncateSpec == TruncateInit /\ [][TruncateNext]_vars

ConnectInit ==
  /\ NoProgram
  /\ arg \in ConnectArgs
  /\ out = NoOut

ConnectNext == Connect

ConnectSpec == ConnectInit /\ [][ConnectNext]_vars

\* getCachedTools() applied to a map of two endpoint records; every record of
\* type ManagedServer is tried: any state, with or without a stored wrapper,
\* with or without discovered operations
EndpointRecords(s) ==
  {[InitialServer(s) EXCEPT !.state = st, !.client = w, !.wrapper = w, !.tools = tl] :
     st \in ConnectionStates, w \in {0, 1}, tl \in {<<>>} \cup ToolLists}

CacheInit ==
  /\ names = <<"a", "b">>
  /\ retries = 0
  /\ \E ra \in EndpointRecords("a"), rb \in EndpointRecords("b") :
       servers = [s \in Servers |-> IF s = "a" THEN ra ELSE rb]
  /\ wrappers = [s \in Servers |->
                   [w \in (IF servers[s].wrapper = 0 THEN {} ELSE {servers[s].wrapper}) |->
                      [NewWrapper EXCEPT !.client = "session"]]]
  /\ task = [t \in Tasks |-> IdleTask]
  /\ caller = [c \in Callers |-> IdleCaller]
  /\ ClientConstructed("stdio")
  /\ NothingObserved

CacheNext == GetCachedTools

CacheSpec == CacheInit /\ [][CacheNext]_vars

(***************************************************************************)
(* Properties of the manager                                                *)
(***************************************************************************)
OnServer(s) == {t \in Tasks : t[2] = s}
\* the sessions that were established for endpoint s and that nothing has closed
LiveSessions(s) == {w \in DOMAIN wrappers[s] : wrappers[s][w].client = "session"}
\* a doConnect routine is running for endpoint s
Connecting(s) == \E t \in OnServer(s) : task[t].promise = "pending"

\* C2: concurrent connectServer(name) calls start one doConnect: at most one
\* doConnect promise is pending per name, and a caller that found the promise
\* in flight has made no connect attempt and constructed no client.
C2_OneConnectRoutine ==
  \A s \in Servers :
    /\ Cardinality({t \in OnServer(s) : task[t].promise = "pending"}) <= 1
    /\ Cardinality({t \in OnServer(s) : task[t].pc \in {"connect", "list", "backoff"}}) <= 1
    /\ \A t \in OnServer(s) :
         task[t].pc = "join" => task[t].connects = 0 /\ task[t].client = 0

\* two callers are inside connectServer for the same name, one awaiting the
\* other's pending attempt
C2_Witness ==
  \E s \in Servers : \E t1, t2 \in OnServer(s) :
    /\ task[t1].pc = "join"
    /\ task[t1].awaiting = t2
    /\ task[t2].promise = "pending"

\* C3: each endpoint name has at most one live (established, not yet closed)
\* transport session.
C3_OneLiveSession ==
  \A s \in Servers : Cardinality(LiveSessions(s)) <= 1

\* C4: a doConnect whose every attempt fails rejects after exactly retries + 1
\* connect attempts, with the last failure; at that moment the endpoint is in
\* state error with that failure's message; and connectServer rejects to its
\* caller with the same failure.
C4_ExhaustedRetries ==
  [][\A t \in Tasks :
       /\ (task[t].promise = "pending" /\ task'[t].promise \notin {"pending", "ok"}) =>
            /\ task'[t].connects = retries + 1
            /\ task'[t].promise = task'[t].err
            /\ servers'[t[2]].state = "error"
            /\ servers'[t[2]].error = task'[t].err
       /\ (task[t].pc = "finally" /\ task'[t].pc = "done") =>
            task'[t].res = task[t].promise]_vars

\* retries = 2, three attempts were made, the last one failed with e2 after an
\* earlier failure with e1, and the routine has rejected
C4_Witness ==
  \E t \in Tasks :
    /\ retries = 2
    /\ task[t].pc = "finally"
    /\ task[t].connects = 3
    /\ task[t].promise = "e2"
    /\ servers[t[2]].state = "error"
    /\ servers[t[2]].error = "e2"

\* C6: connectAll never rejects; when it has resolved and no disconnect was
\* ever requested, every connectServer it issued has settled, every endpoint
\* whose connectServer resolved is connected, every endpoint that has no
\* connect routine running is connected or in state error, and every endpoint
\* whose connectServer rejected is in state error with that failure's message
\* unless another caller has started a connect routine of its own for it.
C6_ConnectAllSettles ==
  \A c \in Callers :
    (caller[c].op = "connectAll" /\ caller[c].pc = "resolved") =>
      /\ caller[c].res = "ok"
      /\ (\A t \in Tasks : task[t].op # "disconnect") =>
           \A s \in Servers :
             /\ task[<<c, s>>].pc = "done"
             /\ task[<<c, s>>].res \in {"ok"} \cup ErrMsgs
             /\ task[<<c, s>>].res = "ok" => servers[s].state = "connected"
             /\ ~Connecting(s) => servers[s].state \in {"connected", "error"}
             /\ task[<<c, s>>].res \in ErrMsgs =>
                  \/ servers[s].state = "error" /\ servers[s].error = task[<<c, s>>].res
                  \/ \E t \in OnServer(s) : t[1] # c /\ task[t].promise # "none"

\* connectAll has resolved with endpoint a exhausted and endpoint b connected
C6_Witness ==
  \E c \in Callers :
    /\ caller[c].op = "connectAll"
    /\ caller[c].pc = "resolved"
    /\ \A t \in Tasks : t[1] # c => task[t].pc = "idle"
    /\ task[<<c, "a">>].res \in ErrMsgs
    /\ servers["a"].state = "error"
    /\ task[<<c, "b">>].res = "ok"
    /\ servers["b"].state = "connected"

\* C7: a connectServer that awaited the attempt in flight settles as that
\* attempt did: it resolves if the attempt succeeded and rejects with the
\* attempt's failure otherwise, and not before the attempt has settled.
C7_JoinerSeesOutcome ==
  [][\A t \in Tasks :
       (task[t].pc = "join" /\ task'[t].pc # "join") =>
         /\ task[task[t].awaiting].promise # "pending"
         /\ task'[t].pc = "done"
         /\ task'[t].res = task[task[t].awaiting].promise]_vars

\* a joining caller has rejected with the failure of the attempt it joined
C7_Witness ==
  \E t \in Tasks :
    /\ task[t].ret = "joined"
    /\ task[t].res \in ErrMsgs

\* C8: connectServer(name) on a connected endpoint returns at once, makes no
\* connect attempt, constructs no client and leaves the endpoint record as
\* it is.
C8_ConnectedIsNoOp ==
  [][\A t \in Tasks :
       (task[t].pc = "idle" /\ task'[t].op = "connect"
          /\ servers[t[2]].state = "connected") =>
         /\ servers'[t[2]] = servers[t[2]]
         /\ wrappers'[t[2]] = wrappers[t[2]]
         /\ task'[t].pc = "done"
         /\ task'[t].res = "ok"
         /\ task'[t].connects = 0]_vars

\* a connectServer has returned by the state = connected check
C8_Witness ==
  \E t \in Tasks :
    /\ task[t].ret = "connected"
    /\ servers[t[2]].state = "connected"

\* C9: when a disconnectServer completes, the endpoint has no client, no
\* discovered operations and state disconnected, and the call resolves, also
\* when closing the session threw.
C9_DisconnectResets ==
  [][\A t \in Tasks :
       (task[t].pc # "done" /\ task'[t].pc = "done" /\ task'[t].op = "disconnect") =>
         /\ servers'[t[2]].client = 0
         /\ servers'[t[2]].wrapper = 0
         /\ servers'[t[2]].tools = <<>>
         /\ servers'[t[2]].state = "disconnected"
         /\ task'[t].res = "ok"]_vars

\* a disconnectServer has completed after close() threw
C9_Witness ==
  \E t \in Tasks :
    /\ task[t].op = "disconnect"
    /\ task[t].pc = "done"
    /\ task[t].closeThrew
    /\ servers[t[2]].state = "disconnected"

\* C22: an endpoint's connectPromise is set only while its state is
\* connecting or reconnecting.
C22_PromiseOnlyWhileConnecting ==
  \A s \in Servers :
    servers[s].connectPromise # NoTask => servers[s].state \in {"connecting", "reconnecting"}

\* C23: an endpoint's tools are non-empty only when its state is connected.
C23_ToolsOnlyWhenConnected ==
  \A s \in Servers :
    servers[s].tools # <<>> => servers[s].state = "connected"

\* an endpoint that was connected, and held operations, has been disconnected
C23_Witness ==
  \E s \in Servers :
    /\ servers[s].state = "disconnected"
    /\ servers[s].lastPing > 0
    /\ servers[s].tools = <<>>

\* the state changes the endpoint state machine lists
ListedTransitions ==
  {<<"disconnected", "connecting">>, <<"connecting", "connected">>,
   <<"connecting", "error">>, <<"connected", "disconnected">>,
   <<"connected", "error">>, <<"error", "connecting">>}

\* C24: every change of an endpoint's state is one of the listed transitions.
C24_OnlyListedTransitions ==
  [][\A s \in Servers :
       servers'[s].state # servers[s].state =>
         <<servers[s].state, servers'[s].state>> \in ListedTransitions]_vars

\* C25: when the transport of a connected endpoint reports an unrecoverable
\* error, the endpoint's state becomes error and the error's message is
\* recorded.
C25_TransportErrorSetsError ==
  [][\A s \in Servers, e \in ErrMsgs :
       LET w == servers[s].wrapper IN
       ( /\ servers[s].state = "connected"
         /\ w # 0
         /\ w \in DOMAIN wrappers'[s]
         /\ wrappers[s][w].transportError = "none"
         /\ wrappers'[s][w].transportError = e )
       => /\ servers'[s].state = "error"
          /\ servers'[s].error = e]_vars

\* the callers released by this step
ReleasedNow == {j \in Calls : call[j].pc = "queued" /\ call'[j].pc = "woken"}

\* C26: every completion of an admitted call, by a result or by a failure,
\* lowers pendingCalls by one (from the value it had with the call counted)
\* and releases exactly one queued caller when the queue is not empty, and
\* none when it is empty.
C26_CompletionReleasesOne ==
  [][\A k \in Calls :
       ( /\ call[k].pc \in {"inflight", "stale", "woken"}
         /\ call'[k].pc = "done" )
       => /\ cl'.pendingCalls =
               (IF call[k].pc = "woken" THEN cl.pendingCalls + 1 ELSE cl.pendingCalls) - 1
          /\ IF cl.callQueue # <<>>
               THEN /\ Cardinality(ReleasedNow) = 1
                    /\ Len(cl'.callQueue) = Len(cl.callQueue) - 1
               ELSE /\ ReleasedNow = {}
                    /\ cl'.callQueue = <<>>]_vars

\* a call has failed, its completion has released one caller, and another
\* caller is still queued
C26_Witness ==
  /\ \E k \in Calls : call[k].pc = "done" /\ call[k].res = "error"
  /\ \E j \in Calls : call[j].pc = "woken"
  /\ Len(cl.callQueue) >= 1
  /\ cl.pendingCalls = 0

\* C27: queued callers are released in the order in which they were queued:
\* when a caller is released, no caller that was queued before it is still
\* waiting.  (Invocations are made in the order of their numbers, so of two
\* queued callers the one with the smaller number was queued first.)
C27_ReleasedInQueueOrder ==
  [][\A j \in ReleasedNow :
       \A i \in Calls : (i < j) => call[i].pc # "queued"]_vars

\* C28: on a client that stays connected and whose requests all settle, every
\* caller queued at the ceiling is eventually admitted (its request is sent).
C28_QueuedEventuallyAdmitted ==
  \A k \in Calls :
    (call[k].pc = "queued") ~> (call[k].pc \in {"inflight", "done"})

\* a queued caller has been released while another one is still queued
C28_Witness ==
  /\ cl.client = "session"
  /\ \E k \in Calls : call[k].pc = "woken"
  /\ \E j \in Calls : call[j].pc = "queued"

\* C29: when disconnect() settles, whether close() resolved or threw, the
\* client has no session, pendingCalls is 0 and callQueue is empty; and
\* disconnect() on a client without a session begins no close() (it returns
\* at once, a step that changes nothing).
C29_DisconnectResets ==
  [][/\ (life = "closing" /\ life' = "idle") =>
          /\ cl'.client = "null"
          /\ cl'.pendingCalls = 0
          /\ cl'.callQueue = <<>>
     /\ (life = "idle" /\ cl.client = "null") => life' # "closing"]_vars

\* disconnect() has settled on a client that had a call in flight and a
\* caller queued
C29_Witness ==
  /\ life = "idle"
  /\ cl = NewClient
  /\ \E k \in Calls : call[k].pc = "stale"
  /\ \E j \in Calls : call[j].pc = "queued"

\* the transport type of the configuration lacks the field it requires
Lacks(config) ==
  \/ config.transport = "stdio" /\ config.command = "absent"
  \/ config.transport \in {"http", "sse"} /\ config.url = "absent"

\* C30: connect() on a client without a session whose transport type lacks
\* its required field (stdio without command, http or sse without url)
\* rejects with the error that names the transport type and the missing
\* field, and leaves the client without a session.
C30_MissingFieldRejected ==
  (out.returned /\ arg.fn = "connect" /\ arg.client = "null" /\ Lacks(arg.config)) =>
    /\ out.value.outcome = "rejected"
    /\ out.value.error =
         Requires(arg.config.transport,
                  IF arg.config.transport = "stdio" THEN "command" ELSE "url")
    /\ out.value.client = "null"

\* connect() has rejected for an sse endpoint that has a command but no url
C30_Witness ==
  /\ out.returned
  /\ arg.fn = "connect"
  /\ arg.client = "null"
  /\ arg.config.transport = "sse"
  /\ arg.config.command = "npx"
  /\ arg.config.url = "absent"
  /\ out.value.outcome = "rejected"

(***************************************************************************)
(* Properties of the status reads                                           *)
(***************************************************************************)
\* C11: getStatus, getServerStatus and getCachedTools change no endpoint
\* record (state, client, wrapper, operations, error, in-flight connect
\* promise), construct no client and start or advance no connectServer,
\* doConnect or disconnectServer, in whatever state the endpoints are.
C11_ReadsAreReadOnly ==
  [][(status' # status \/ cached' # cached) =>
       /\ servers' = servers
       /\ wrappers' = wrappers
       /\ task' = task
       /\ caller' = caller]_vars

\* getStatus has reported an endpoint as connecting while its connect promise
\* is in flight, and the attempt is still in flight afterwards
C11_Witness ==
  /\ status.called
  /\ status.op = "getStatus"
  /\ status.result[1].state = "connecting"
  /\ servers["a"].state = "connecting"
  /\ servers["a"].connectPromise # NoTask
  /\ \E t \in Tasks : task[t].pc = "connect"

\* C12: when a doConnect rejects, getStatus lists the endpoint in state error
\* with the last failure's message; and as long as an endpoint is in state
\* error its status entry stays as it is, except by a step in which a
\* connectServer starts an attempt or a disconnectServer completes.
C12_FailedStaysVisible ==
  [][\A s \in Servers :
       /\ \A t \in OnServer(s) :
            (task[t].promise = "pending" /\ task'[t].promise \in ErrMsgs) =>
              \E i \in 1..Len(names) :
                /\ getStatus(servers')[i].name = s
                /\ getStatus(servers')[i].state = "error"
                /\ getStatus(servers')[i].error = task'[t].lastError
                /\ getServerStatus(servers', s) = <<getStatus(servers')[i]>>
       /\ (servers[s].state = "error" /\ StatusOf(servers'[s]) # StatusOf(servers[s])) =>
            \E t \in OnServer(s) :
              \/ task[t].pc = "idle" /\ task'[t].pc = "connect"
              \/ task[t].pc # "done" /\ task'[t].pc = "done" /\ task'[t].op = "disconnect"]_vars

\* getStatus was called after a connectServer with retries = 2 has rejected with
\* the last failure, and has reported the endpoint in state error with its message
C12_Witness ==
  /\ status.called
  /\ status.op = "getStatus"
  /\ status.result[1].state = "error"
  /\ status.result[1].error = "e2"
  /\ servers["a"].state = "error"
  /\ retries = 2
  /\ \E t \in Tasks : task[t].ret = "finally" /\ task[t].res = "e2"

(***************************************************************************)
(* Properties of the protocol client                                        *)
(***************************************************************************)
\* the callTool invocations whose request is in flight on the current session
InFlight == {k \in Calls : call[k].pc = "inflight"}
Queued(q) == {q[i] : i \in 1..Len(q)}

\* C1: the number of calls in flight on the session never exceeds the limit
\* of the client's transport type.
C1_CeilingRespected ==
  Cardinality(InFlight) <= MaxConcurrency

\* C5: a caller suspended at the queue wait is never left without its resume
\* callback: the callback is in the client's queue until it is called, so the
\* caller can still be resumed and observe the outcome of a disconnect.
C5_NoCallerLeftSuspended ==
  \A k \in Calls : call[k].pc = "queued" => k \in Queued(cl.callQueue)

\* C13: listTools and callTool invoked on a client that has no session
\* reject at once with the not-connected error and leave pendingCalls,
\* callQueue and every other invocation as they are; execute of a bridged
\* tool rejects with that same error, and the invocation does nothing more.
C13_NotConnectedFailsFast ==
  [][\A k \in Calls :
       /\ (call[k].pc = "idle" /\ call'[k].pc # "idle" /\ cl.client = "null") =>
            /\ call'[k].pc = "done"
            /\ call'[k].res = NotConnectedMsg
            /\ cl' = cl
            /\ \A j \in Calls \ {k} : call'[j] = call[j]
       /\ (call[k].pc = "done" /\ call[k].res = NotConnectedMsg /\ call'[k] # call[k]) =>
            /\ call[k].op = "callTool"
            /\ call'[k] = [call[k] EXCEPT !.pc = "returned",
                             !.ret = [returned |-> TRUE, threw |-> TRUE, error |-> NotConnectedMsg]]
            /\ cl' = cl
       /\ call[k].pc = "returned" => call'[k] = call[k]]_vars

\* on a client that was disconnected while a call was in flight, a listTools
\* has rejected with the not-connected error and an execute has thrown it
C13_Witness ==
  /\ cl.client = "null"
  /\ \E k \in Calls : call[k].pc = "stale"
  /\ \E k \in Calls :
       call[k].op = "listTools" /\ call[k].pc = "done" /\ call[k].res = NotConnectedMsg
  /\ \E k \in Calls :
       /\ call[k].op = "callTool"
       /\ call[k].pc = "returned"
       /\ call[k].ret = [returned |-> TRUE, threw |-> TRUE, error |-> NotConnectedMsg]

(***************************************************************************)
(* Properties of cached tool retrieval                                      *)
(***************************************************************************)
\* C10: every tool returned by getCachedTools belongs to an endpoint whose
\* state is connected; an endpoint in any other state contributes no tool.
C10_CachedOnlyConnected ==
  cached.called =>
    /\ \A i \in 1..Len(cached.tools) :
         servers[cached.tools[i].serverName].state = "connected"
    /\ \A s \in Servers :
         servers[s].state # "connected" =>
           \A i \in 1..Len(cached.tools) : cached.tools[i].serverName # s

\* getCachedTools has returned the tools of connected endpoint b and none of
\* endpoint a, which is in state error with a stored wrapper and operations
C10_Witness ==
  /\ cached.called
  /\ servers["a"].state = "error"
  /\ servers["a"].wrapper # 0
  /\ servers["a"].tools # <<>>
  /\ servers["b"].state = "connected"
  /\ Len(cached.tools) = 2
  /\ \A i \in 1..Len(cached.tools) : cached.tools[i].serverName = "b"

(***************************************************************************)
(* Properties of the bridge and of transport selection                      *)
(***************************************************************************)
Labels(tools) == [i \in 1..Len(tools) |-> tools[i].label]
\* the names of an optional list, none if it is absent
NamesIn(list) == IF list.present THEN Range(list.items) ELSE {}
\* a name passes: it is not denied and, if any name is allowed, it is allowed
Passes(n, f) ==
  /\ n \notin NamesIn(f.deny)
  /\ NamesIn(f.allow) # {} => n \in NamesIn(f.allow)

\* C15: the bridged tools are exactly the discovered operations that pass the
\* filter, in discovery order, where a denied name never passes (also when it
\* is allowed), with a non-empty allow list only allowed names pass, and with
\* an absent or empty allow list every name passes that is not denied.
C15_FilterSelects ==
  (out.returned /\ arg.fn = "createBridgedTools") =>
    Labels(out.value) = SelectSeq(arg.tools, LAMBDA n : Passes(n, arg.filter))

\* of three operations the one both allowed and denied and the one not
\* allowed are left out, the allowed one is bridged
C15_Witness ==
  /\ out.returned
  /\ arg.fn = "createBridgedTools"
  /\ arg.tools = <<"web", "write", "read">>
  /\ arg.filter.allow = List(<<"read", "write">>)
  /\ arg.filter.deny = List(<<"write">>)
  /\ Labels(out.value) = <<"read">>

\* C16: for an endpoint name and operation names over [a-z0-9_], the tools
\* of one createBridgedTools call have pairwise different qualified names.
C16_QualifiedNamesDistinct ==
  (/\ out.returned
   /\ arg.fn = "createBridgedTools"
   /\ arg.serverName \in PlainNames \cup WordNames
   /\ \A i \in 1..Len(arg.tools) : arg.tools[i] \in PlainNames \cup WordNames) =>
    \A i, j \in 1..Len(out.value) :
      i # j => out.value[i].name # out.value[j].name

Present(v) == v # "absent"
Given(v) == v # "absent" /\ v # ""
Explicit(raw) == Present(raw.transport) /\ raw.transport # "auto"

\* C17: detectTransport returns an explicit transport other than "auto" as it
\* is; otherwise stdio if a command is present; otherwise http if a url is
\* present; otherwise stdio.
C17_TransportSelection ==
  (out.returned /\ arg.fn = "detectTransport") =>
    LET raw == arg.raw IN
    /\ Explicit(raw) => out.value = raw.transport
    /\ (~Explicit(raw) /\ Present(raw.command)) => out.value = "stdio"
    /\ (~Explicit(raw) /\ ~Present(raw.command) /\ Present(raw.url)) => out.value = "http"
    /\ (~Explicit(raw) /\ ~Present(raw.command) /\ ~Present(raw.url)) => out.value = "stdio"

\* C17 as amended: a command or url counts only if it is given and not the
\* empty string; the result is always one of stdio, http, sse.
C17_TransportSelectionNonEmpty ==
  (out.returned /\ arg.fn = "detectTransport") =>
    LET raw == arg.raw IN
    /\ out.value \in {"stdio", "http", "sse"}
    /\ Explicit(raw) => out.value = raw.transport
    /\ (~Explicit(raw) /\ Given(raw.command)) => out.value = "stdio"
    /\ (~Explicit(raw) /\ ~Given(raw.command) /\ Given(raw.url)) => out.value = "http"
    /\ (~Explicit(raw) /\ ~Given(raw.command) /\ ~Given(raw.url)) => out.value = "stdio"

\* transport "auto" with an empty command and a url has given http
C17_Witness ==
  /\ out.returned
  /\ arg.fn = "detectTransport"
  /\ arg.raw.transport = "auto"
  /\ arg.raw.command = ""
  /\ arg.raw.url = "https://mcp.example.com"
  /\ out.value = "http"

(***************************************************************************)
(* Properties of the trust policy                                           *)
(***************************************************************************)
Contains(text, lit) == \E i \in 1..Len(text) : StartsWith(text, i, lit)
\* a '<', one or more characters other than '>', then '>'
HasTag(text) ==
  \E i, j \in 1..Len(text) :
    /\ text[i] = "<"
    /\ text[j] = ">"
    /\ j >= i + 2
    /\ \A k \in (i + 1)..(j - 1) : text[k] # ">"

\* C18: the text stripDangerous returns contains no literal "<script" and no
\* '<', one or more characters other than '>', '>'.
C18_SanitizedIsClean ==
  (out.returned /\ arg.fn = "stripDangerous") =>
    /\ ~Contains(out.value, ScriptOpen)
    /\ ~HasTag(out.value)

\* applyTrustPolicy has returned for the arguments in arg
PolicyReturned == out.returned /\ arg.fn = "applyTrustPolicy"
\* the result of one block alone
Alone(block) == [content |-> <<block>>, isError |-> FALSE]

\* C19: under every trust level applyTrustPolicy returns as many blocks as it
\* was given (so at least one for a non-empty input), and in the same order:
\* the i-th block returned is the block returned for the i-th input block
\* alone; a text or resource block gives a text block, an image block gives
\* an image block or, under sanitize, a text block.
C19_BlocksKeptInOrder ==
  PolicyReturned =>
    LET given == arg.result.content
        got   == out.value.content
    IN
    /\ Len(given) >= 1 => Len(got) >= 1
    /\ Len(got) = Len(given)
    /\ \A i \in 1..Len(given) :
         /\ Len(applyTrustPolicy(Alone(given[i]), arg.trust, arg.maxChars).content) = 1
         /\ got[i] = applyTrustPolicy(Alone(given[i]), arg.trust, arg.maxChars).content[1]
         /\ got[i].type = IF given[i].type = "image" /\ arg.trust # "sanitize"
                            THEN "image" ELSE "text"

\* under sanitize, a resource, an image and a text block have given three
\* text blocks, the image's notice between the other two
C19_Witness ==
  /\ PolicyReturned
  /\ arg.trust = "sanitize"
  /\ Len(arg.result.content) = 3
  /\ arg.result.content[1].type = "resource"
  /\ arg.result.content[2].type = "image"
  /\ arg.result.content[3].type = "text"
  /\ Len(out.value.content) = 3
  /\ out.value.content[2].text = ImageNotice
  /\ Contains(out.value.content[1].text, ResourceLabel)
  /\ ~Contains(out.value.content[3].text, ResourceLabel)

\* C20: under trusted and untrusted every image block is returned as it was
\* given, at its place; under sanitize no image block is returned and at the
\* place of every image stands one text block with the removal notice.
C20_ImagesByTrust ==
  PolicyReturned =>
    LET given == arg.result.content
        got   == out.value.content
    IN
    /\ Len(got) = Len(given)
    /\ \A i \in 1..Len(given) :
         given[i].type = "image" =>
           IF arg.trust = "sanitize"
             THEN got[i].type = "text" /\ Contains(got[i].text, <<"r", "e", "m", "o", "v", "e", "d">>)
             ELSE got[i] = given[i]
    /\ arg.trust = "sanitize" => \A i \in 1..Len(got) : got[i].type # "image"
    /\ arg.trust # "sanitize" =>
         Cardinality({i \in 1..Len(got) : got[i].type = "image"})
           = Cardinality({i \in 1..Len(given) : given[i].type = "image"})

\* an image between two texts has passed untrusted unchanged
C20_Witness ==
  /\ PolicyReturned
  /\ arg.trust = "untrusted"
  /\ Len(arg.result.content) = 3
  /\ arg.result.content[1].type = "text"
  /\ arg.result.content[2] = ImageBlock("R0lGODlh", "image/gif")
  /\ out.value.content[2] = ImageBlock("R0lGODlh", "image/gif")
  /\ out.value.content[1].type = "text"

\* C14: when client.callTool resolves with isError set, execute does not
\* throw: it returns one text block, with details marking an error, whose
\* text is the error mark followed by the texts of the result as the trust
\* policy returned them, or by "Unknown error" if there is no such text.
C14_ErrorBecomesOneBlock ==
  (out.returned /\ arg.fn = "execute" /\ ~arg.settled.rejected
     /\ arg.settled.result.isError) =>
    /\ ~out.threw
    /\ Len(out.value.content) = 1
    /\ out.value.content[1].type = "text"
    /\ out.value.details = [error |-> TRUE, serverError |-> TRUE]
    /\ StartsWith(out.value.content[1].text, 1, McpErrorMark)
    /\ LET secured == applyTrustPolicy(arg.settled.result, arg.trust, arg.maxChars).content
           texts   == {secured[i].text : i \in {j \in 1..Len(secured) : secured[j].type = "text"}}
       IN
       /\ \A t \in texts : t = <<>> \/ Contains(out.value.content[1].text, t)
       /\ texts \subseteq {<<>>} => out.value.content[1].text = McpErrorMark \o UnknownError

\* a result of a text and an image with the error flag set has come back as
\* one error block with the text
C14_Witness ==
  /\ out.returned
  /\ arg.fn = "execute"
  /\ arg.trust = "trusted"
  /\ ~arg.settled.rejected
  /\ arg.settled.result = [content |-> <<TextBlock(<<"a", "b">>), ImageBlock("R0lGODlh", "image/gif")>>,
                           isError |-> TRUE]
  /\ ~out.threw
  /\ out.value.content = <<TextBlock(McpErrorMark \o <<"a", "b">>)>>

\* C21: under trusted, at the place of every resource block stands one text
\* block that contains the resource's uri and, when the resource has inline
\* text, that text, and that does not begin with a warning prefix.
C21_TrustedResourceFlattened ==
  (PolicyReturned /\ arg.trust = "trusted") =>
    LET given == arg.result.content
        got   == out.value.content
    IN
    /\ Len(got) = Len(given)
    /\ \A i \in 1..Len(given) :
         given[i].type = "resource" =>
           /\ got[i].type = "text"
           /\ Contains(got[i].text, given[i].resource.uri)
           /\ given[i].resource.text.present =>
                Contains(got[i].text, given[i].resource.text.value)
           /\ ~StartsWith(got[i].text, 1, UNTRUSTED_PREFIX)
           /\ ~StartsWith(got[i].text, 1, SANITIZE_PREFIX)

\* C31: a connect routine makes at most retries + 1 attempts and none after
\* its first successful one; and when every attempt settles, every
\* connectServer invocation settles.
C31_BoundedRetryLoop ==
  /\ [](\A t \in Tasks : task[t].connects <= retries + 1)
  /\ [][\A t \in Tasks :
          (task[t].promise = "ok") => (task'[t].connects <= task[t].connects)]_vars
  /\ \A t \in Callers \X {"a"} :
       (task[t].op = "connect" /\ task[t].pc # "done") ~> (task[t].pc = "done")

\* retries = 2 and the third attempt, the last one allowed, has succeeded
C31_Witness ==
  \E t \in Tasks :
    /\ retries = 2
    /\ task[t].pc = "finally"
    /\ task[t].connects = 3
    /\ task[t].promise = "ok"

\* the delays of exponential backoff before attempt number n (attempts count
\* from 0): 1000, 2000, 4000, ...
BackoffBefore(n) == [i \in 1..n |-> 1000 * 2 ^ (i - 1)]

\* C32: no delay precedes attempt 0, the delay between failed attempt i and
\* attempt i+1 is 1000 * 2^i ms, and no delay follows the final failed
\* attempt (nor a successful one).
C32_ExponentialBackoff ==
  \A t \in Tasks :
    /\ task[t].pc \in {"connect", "list", "finally"} =>
         task[t].delays = BackoffBefore(task[t].attempt)
    /\ task[t].pc = "backoff" =>
         task[t].delays = BackoffBefore(task[t].attempt + 1)

\* retries = 2 and all three attempts have failed: the routine has waited
\* 1000 ms and 2000 ms, and nothing after the last failure
C32_Witness ==
  \E t \in Tasks :
    /\ retries = 2
    /\ task[t].pc = "finally"
    /\ task[t].promise \in ErrMsgs
    /\ task[t].connects = 3
    /\ task[t].delays = <<1000, 2000>>

\* the warning prefix of a trust level; none for trusted
PrefixOf(trust) ==
  CASE trust = "trusted" -> <<>>
    [] trust = "untrusted" -> UNTRUSTED_PREFIX
    [] trust = "sanitize" -> SANITIZE_PREFIX

\* C33: for every text block, under every trust level, the text returned is
\* the level's prefix followed by truncate(f(text), maxChars), where f is
\* stripDangerous under sanitize and the identity otherwise: the limit counts
\* the filtered text, not the original one and not the prefix.
C33_PrefixFilterTruncate ==
  PolicyReturned =>
    LET given == arg.result.content
        got   == out.value.content
    IN
    /\ Len(got) = Len(given)
    /\ \A i \in 1..Len(given) :
         given[i].type = "text" =>
           LET filtered == IF arg.trust = "sanitize"
                             THEN stripDangerous(given[i].text) ELSE given[i].text
           IN
           /\ got[i].type = "text"
           /\ got[i].text = PrefixOf(arg.trust) \o truncate(filtered, arg.maxChars)

\* under sanitize with limit 2, "<b>cde" is filtered to "cde" and then cut to
\* "cd": the tag does not count, the prefix does not count
C33_Witness ==
  /\ PolicyReturned
  /\ arg.trust = "sanitize"
  /\ arg.maxChars = 2
  /\ arg.result.content = <<TextBlock(<<"<", "b", ">", "c", "d", "e">>)>>
  /\ out.value.content =
       <<TextBlock(SANITIZE_PREFIX \o <<"c", "d">> \o TruncatedAt \o <<"2">> \o CharsMark)>>

\* C34: truncate is idempotent: truncating what truncate returned, with the
\* same limit, gives it back unchanged.
C34_TruncateIdempotent ==
  (out.returned /\ arg.fn = "truncate") => out.twice = out.once

\* "abab" was cut at 2 to "ab" and the marker, which is longer than the
\* limit, and cutting that again gave the same text
C34_Witness ==
  /\ out.returned
  /\ arg.fn = "truncate"
  /\ arg.text = <<"a", "b", "a", "b">>
  /\ arg.maxChars = 2
  /\ out.once = <<"a", "b">> \o TruncatedAt \o <<"2">> \o CharsMark
  /\ out.twice = out.once

\* C35: whenever an endpoint is connected its recorded error is absent.
C35_ConnectedHasNoError ==
  \A s \in Servers :
    servers[s].state = "connected" => servers[s].error = "none"

\* an earlier connectServer was rejected, which left the endpoint in state
\* error with a message, and the endpoint is connected now
C35_Witness ==
  \E s \in Servers :
    /\ servers[s].state = "connected"
    /\ servers[s].error = "none"
    /\ \E t \in OnServer(s) :
         /\ task[t].ret = "finally"
         /\ task[t].res \in ErrMsgs

\* C36: once disconnectServer(name) has returned, and as long as no caller
\* has invoked connectServer or connectAll after it, the endpoint is in state
\* disconnected and holds no client.  (Callers make their calls in the order
\* of their numbers.)
C36_DisconnectIsFinal ==
  \A s \in Servers : \A d \in Callers :
    ( /\ task[<<d, s>>].op = "disconnect"
      /\ task[<<d, s>>].pc = "done"
      /\ \A c \in Callers : c > d => task[<<c, s>>].pc = "idle" )
    => /\ servers[s].state = "disconnected"
       /\ servers[s].client = 0
       /\ servers[s].wrapper = 0

\* C37: pendingCalls of a client is never negative.
C37_CounterNeverNegative == cl.pendingCalls >= 0

\* C38: an endpoint is connected if and only if its record holds a client and
\* a wrapper; and every call of getCachedTools returns a tool of every
\* connected endpoint (each endpoint has an operation its filter lets pass).
C38_ConnectedIffClient ==
  /\ [](\A s \in Servers :
          servers[s].state = "connected"
            <=> (servers[s].client # 0 /\ servers[s].wrapper # 0))
  /\ [][cached' # cached =>
          \A s \in Servers :
            servers[s].state = "connected" =>
              \E i \in 1..Len(cached'.tools) :
                /\ cached'.tools[i].serverName = s
                /\ cached'.tools[i].client = servers[s].wrapper]_vars

\* getCachedTools has returned a tool of a connected endpoint, bound to the
\* wrapper the record holds
C38_Witness ==
  \E s \in Servers :
    /\ cached.called
    /\ servers[s].state = "connected"
    /\ servers[s].client # 0
    /\ \E i \in 1..Len(cached.tools) :
         /\ cached.tools[i].serverName = s
         /\ cached.tools[i].client = servers[s].wrapper

\* C39: a bridged tool stays bound to the client it was created with: once
\* that client has been disconnected (disconnect() has settled on it, so it
\* has no session), every invocation of the tool fails with the
\* not-connected error, also when the endpoint is connected again with a new
\* client.
C39_ToolBoundToItsClient ==
  [][out' # out =>
       LET tool == out'.tool
           s == tool.serverName
       IN
       WrapperClient(s, tool.client) = "null"
       => /\ out'.threw
          /\ out'.error = NotConnectedMsg]_vars

\* a tool created before the disconnect was invoked after the endpoint had
\* connected again with a new client, and failed with not connected
C39_Witness ==
  /\ out.returned
  /\ out.threw
  /\ out.error = NotConnectedMsg
  /\ servers[out.tool.serverName].state = "connected"
  /\ servers[out.tool.serverName].wrapper # out.tool.client
  /\ WrapperClient(out.tool.serverName, servers[out.tool.serverName].wrapper) = "session"

\* C40: no endpoint is ever in state reconnecting, and while a connect
\* routine goes through its retry loop (an attempt in flight, or the backoff
\* delay between two attempts) the endpoint's state is connecting.
C40_ConnectingThroughoutLoop ==
  \A s \in Servers :
    /\ servers[s].state # "reconnecting"
    /\ \A t \in OnServer(s) :
         task[t].pc \in {"connect", "list", "backoff"} => servers[s].state = "connecting"

====
